---- MODULE Spec2Model ----
(***************************************************************************)
(* Model of the bank_reviews ingestion store (db/load.py) and of the two   *)
(* review identity functions (utils/text.py, db/load.py).                  *)
(*                                                                         *)
(* Strings are sequences of one-character strings.  A digest (sha1,        *)
(* sha256) is modelled as collision free: a digest value is the tagged     *)
(* byte string that was hashed.                                            *)
(***************************************************************************)
EXTENDS Integers, Sequences, FiniteSets, Bags, TLC

VARIABLES
    db,         \* committed tables: banks, reviews, themes, review_themes
    tx,         \* per connection: position in the call and its uncommitted writes
    done,       \* per connection: the last finished call and the store it started from
    calls,      \* number of calls begun
    idFn,       \* identity function under test
    idArgs,     \* first argument tuple (bank, review, date, rating, source)
    idArgs2,    \* second argument tuple, differing from idArgs in idPos only
    idPos,      \* the argument that differs
    idOut,      \* <<>> before the calls, <<h1, h2>> after them
    callFn,     \* pure function under test ("none": no function is under test)
    callArgs,   \* its arguments
    callOut,    \* NotCalled before the call, the returned value after it
    log,        \* the committed calls of the two load phases, oldest first
    _store,     \* TTLCache._store: key -> (ts, value)
    clock,      \* time.time()
    lastSet,    \* per key, the time and value of the most recent set
    lastOp      \* the last call on the cache, its result, and _store before it

idVars == <<idFn, idArgs, idArgs2, idPos, idOut>>
storeVars == <<db, tx, done, calls>>
pureVars == <<callFn, callArgs, callOut>>
histVars == <<log>>
cacheVars == <<_store, clock, lastSet, lastOp>>
vars == <<db, tx, done, calls, idFn, idArgs, idArgs2, idPos, idOut,
          callFn, callArgs, callOut, log, _store, clock, lastSet, lastOp>>

(***************************************************************************)
(* Bounds                                                                  *)
(***************************************************************************)
MaxLen == 2
MaxBatch == 2       \* rows in one CSV file
MaxCalls == 3       \* calls of the two load phases in one behaviour
MinRowsRequired == 2 \* min_rows_required, scaled down from the default 400
MaxConcCalls == 2   \* calls of the two concurrent callers together
MaxDirtyCalls == 2  \* base loads of unvalidated files in one behaviour

(***************************************************************************)
(* Python values and strings                                               *)
(***************************************************************************)
\* " " and "\t" are whitespace, "ZW" is U+200B (zero-width space), "FW" is
\* U+FF21 (fullwidth A, whose NFKC form is "A").
Chars == {"a", "A", " ", "\t", "ZW", "FW"}

Whitespace == {" ", "\t"}

RECURSIVE StrsUpTo(_)
StrsUpTo(n) ==
    IF n = 0 THEN {<<>>}
    ELSE LET shorter == StrsUpTo(n - 1)
         IN  shorter \cup {Append(s, c) : s \in {t \in shorter : Len(t) = n - 1}, c \in Chars}

Strs == StrsUpTo(MaxLen)

StrVal(s) == [t |-> "str", s |-> s, n |-> 0]
IntVal(n) == [t |-> "int", s |-> <<>>, n |-> n]
NoneVal == [t |-> "none", s |-> <<>>, n |-> 0]
\* float("nan"): what pandas.read_csv gives for an empty cell
NaN == [t |-> "nan", s |-> <<>>, n |-> 0]
\* datetime.date, numbered by day
DateVal(n) == [t |-> "date", s |-> <<>>, n |-> n]
\* pandas.NaT
NaT == [t |-> "nat", s |-> <<>>, n |-> 0]

Digit(n) == CASE n = 0 -> "0" [] n = 1 -> "1" [] n = 2 -> "2" [] n = 3 -> "3"
              [] n = 4 -> "4" [] n = 5 -> "5" [] n = 6 -> "6" [] n = 7 -> "7"
              [] n = 8 -> "8" [] OTHER -> "9"

\* str(v)
PyStr(v) ==
    CASE v.t = "str" -> v.s
      [] v.t = "int" -> <<Digit(v.n)>>
      [] v.t = "nan" -> <<"n", "a", "n">>
      [] v.t = "date" -> <<"2024-01-0", Digit(v.n)>>
      [] v.t = "nat" -> <<"N", "a", "T">>
      [] OTHER -> <<"N", "o", "n", "e">>

\* bool(v)
Truthy(v) ==
    CASE v.t = "str" -> v.s # <<>>
      [] v.t = "int" -> v.n # 0
      [] v.t = "none" -> FALSE
      [] OTHER -> TRUE

\* v or ""
PyOrEmpty(v) == IF Truthy(v) THEN v ELSE StrVal(<<>>)

RECURSIVE LStrip(_)
LStrip(s) == IF s # <<>> /\ Head(s) \in Whitespace THEN LStrip(Tail(s)) ELSE s

RECURSIVE RStrip(_)
RStrip(s) ==
    IF s # <<>> /\ s[Len(s)] \in Whitespace THEN RStrip(SubSeq(s, 1, Len(s) - 1)) ELSE s

\* str.strip()
Strip(s) == RStrip(LStrip(s))

LowerChar(c) == CASE c = "A" -> "a" [] c = "FW" -> "fw"
                 [] c = "L" -> "l" [] c = "N" -> "n" [] c = "O" -> "o"
                 [] c = "P" -> "p" [] c = "T" -> "t"
                 [] c = "POSITIVE" -> "positive" [] c = "NEGATIVE" -> "negative"
                 [] OTHER -> c

\* str.lower()
Lower(s) == [i \in 1..Len(s) |-> LowerChar(s[i])]

\* unicodedata.normalize("NFKC", s)
NFKC(s) == [i \in 1..Len(s) |-> IF s[i] = "FW" THEN "A" ELSE s[i]]

\* s.replace(U+200B, "")
RemoveZW(s) == SelectSeq(s, LAMBDA c : c # "ZW")

\* _WS_RE.sub(" ", s)
RECURSIVE CollapseWS(_)
CollapseWS(s) ==
    IF s = <<>> THEN <<>>
    ELSE IF Head(s) \in Whitespace
         THEN <<" ">> \o CollapseWS(LStrip(s))
         ELSE <<Head(s)>> \o CollapseWS(Tail(s))

normalize_text(v) ==
    IF v.t = "none" THEN <<>>
    ELSE CollapseWS(Lower(Strip(RemoveZW(NFKC(PyStr(v))))))

\* s without its leading characters from cs
RECURSIVE StripChars_L(_, _)
StripChars_L(s, cs) == IF s # <<>> /\ Head(s) \in cs THEN StripChars_L(Tail(s), cs) ELSE s

\* characters that are neither word characters (\w) nor whitespace (\s)
NonWord == {"!", ",", ".", "'", "|", "ZW"}

\* _NON_WORD_RE.sub(" ", s): every run of non-word characters becomes one space
RECURSIVE ReplaceNonWord(_)
ReplaceNonWord(s) ==
    IF s = <<>> THEN <<>>
    ELSE IF Head(s) \in NonWord
         THEN <<" ">> \o ReplaceNonWord(StripChars_L(s, NonWord))
         ELSE <<Head(s)>> \o ReplaceNonWord(Tail(s))

simple_clean_for_matching(v) ==
    Strip(CollapseWS(ReplaceNonWord(normalize_text(v))))

\* "||".join(parts)
RECURSIVE JoinParts(_)
JoinParts(parts) ==
    IF parts = <<>> THEN <<>>
    ELSE IF Len(parts) = 1 THEN parts[1]
         ELSE parts[1] \o <<"|", "|">> \o JoinParts(Tail(parts))

(***************************************************************************)
(* Identity functions.  Arguments are given in the order                   *)
(* <<bank, review, date, rating, source>>.                                 *)
(***************************************************************************)
\* make_review_id with the rating left out of the hashed string
make_review_id_base_NoRating(a) ==
    JoinParts(<<normalize_text(a[1]),
                normalize_text(a[5]),
                normalize_text(a[3]),
                normalize_text(a[2])>>)

make_review_id_base(a) ==
    JoinParts(<<normalize_text(a[1]),
                normalize_text(a[5]),
                normalize_text(a[3]),
                Strip(PyStr(a[4])),
                normalize_text(a[2])>>)

make_review_id(a) == <<"sha1", make_review_id_base(a)>>

_make_review_hash_parts(a) ==
    <<Lower(Strip(PyStr(PyOrEmpty(a[1])))),
      Strip(PyStr(PyOrEmpty(a[2]))),
      PyStr(PyOrEmpty(a[3])),
      PyStr(PyOrEmpty(a[4])),
      Lower(Strip(PyStr(PyOrEmpty(a[5]))))>>

_make_review_hash(a) == <<"sha256", JoinParts(_make_review_hash_parts(a))>>

(***************************************************************************)
(* Ordering of strings (code point order), for sort_values and sorted      *)
(***************************************************************************)
CodeOrder == <<"\t", " ", "'", ",", "A", "K", "N", "O", "U", "W", "[", "]", "a", "b",
               "n", "|", "ZW", "FW", "fw">>

Rank(c) == CHOOSE i \in 1..Len(CodeOrder) : CodeOrder[i] = c

RECURSIVE StrLess(_, _)
StrLess(s, t) ==
    IF t = <<>> THEN FALSE
    ELSE IF s = <<>> THEN TRUE
    ELSE IF Head(s) = Head(t) THEN StrLess(Tail(s), Tail(t))
    ELSE Rank(Head(s)) < Rank(Head(t))

RECURSIVE SortedStrs(_)
SortedStrs(S) ==
    IF S = {} THEN <<>>
    ELSE LET m == CHOOSE x \in S : \A y \in S \ {x} : StrLess(x, y)
         IN  <<m>> \o SortedStrs(S \ {m})

Range(f) == {f[i] : i \in DOMAIN f}

MaxOf(S) == IF S = {} THEN 0 ELSE CHOOSE x \in S : \A y \in S : y <= x

(***************************************************************************)
(* The data frame both load phases build from the CSV file                 *)
(***************************************************************************)
\* pd.to_datetime(cell, errors="coerce").dt.date; the cell "1" stands for
\* the ISO date 2024-01-01, "2" for 2024-01-02, anything else does not parse
to_datetime_date(v) ==
    IF v.t = "str" /\ v.s = <<"1">> THEN DateVal(1)
    ELSE IF v.t = "str" /\ v.s = <<"2">> THEN DateVal(2)
    ELSE NaT

\* df["review"].astype(str).str.strip(); keep rows with len > 0; parse dates
PrepareDf(rows) ==
    LET stripped == [i \in 1..Len(rows) |->
                        [rows[i] EXCEPT !.review = StrVal(Strip(PyStr(@)))]]
        kept == SelectSeq(stripped, LAMBDA r : Len(r.review.s) > 0)
    IN  [i \in 1..Len(kept) |-> [kept[i] EXCEPT !.date = to_datetime_date(@)]]

RowHash(r) == _make_review_hash(<<r.bank, r.review, r.date, r.rating, r.source>>)

\* banks_df: dropna, drop_duplicates, sort_values
BanksDf(df) == SortedStrs({PyStr(df[i].bank) : i \in {j \in DOMAIN df : df[j].bank.t # "nan"}})

(***************************************************************************)
(* Tables.  A connection sees the committed tables overlaid with its own   *)
(* uncommitted row versions (PostgreSQL READ COMMITTED, the default of     *)
(* create_engine).                                                         *)
(***************************************************************************)
EmptyTables == [banks |-> {}, reviews |-> {}, themes |-> {}, review_themes |-> EmptyBag]

BankIds(t) == {b.bank_id : b \in t.banks}
ReviewIds(t) == {r.review_id : r \in t.reviews}
ThemeIds(t) == {x.theme_id : x \in t.themes}

Visible(d, w) ==
    [banks |-> d.banks \cup w.banks,
     reviews |-> {r \in d.reviews : r.review_id \notin ReviewIds(w)} \cup w.reviews,
     themes |-> d.themes \cup w.themes,
     review_themes |-> d.review_themes (+) w.review_themes]

\* The row versions a connection has written, after a statement took the
\* table it saw from `seen` to `now`.
Written(own, seen, now) == {r \in own : r \in now} \cup (now \ seen)

(***************************************************************************)
(* INSERT INTO banks ... ON CONFLICT (bank_name) DO NOTHING, one value set *)
(***************************************************************************)
InsertBankRow(banks, name, used) ==
    IF \E b \in banks : b.bank_name = name THEN banks
    ELSE banks \cup {[bank_id |-> MaxOf(used \cup {b.bank_id : b \in banks}) + 1,
                      bank_name |-> name]}

RECURSIVE InsertBanks(_, _, _)
InsertBanks(banks, names, used) ==
    IF names = <<>> THEN banks
    ELSE InsertBanks(InsertBankRow(banks, Head(names), used), Tail(names), used)

\* dict(SELECT bank_name, bank_id FROM banks); df["bank"].map(bank_map)
BankIdOf(banks, v) ==
    IF v.t # "nan" /\ \E b \in banks : b.bank_name = PyStr(v)
    THEN (CHOOSE b \in banks : b.bank_name = PyStr(v)).bank_id
    ELSE 0

\* df = df.dropna(subset=["bank_id"])
DropNaBankId(df, banks) == SelectSeq(df, LAMBDA r : BankIdOf(banks, r.bank) # 0)

\* the records of the insert
Payload(df, banks) ==
    LET mapped == DropNaBankId(df, banks)
    IN  [i \in 1..Len(mapped) |->
            [bank_id |-> BankIdOf(banks, mapped[i].bank),
             review_text |-> mapped[i].review.s,
             rating |-> mapped[i].rating,
             review_date |-> mapped[i].date,
             source |-> mapped[i].source,
             review_hash |-> RowHash(mapped[i])]]

(***************************************************************************)
(* INSERT INTO reviews ... ON CONFLICT (review_hash) DO NOTHING            *)
(***************************************************************************)
NewReview(r, id) ==
    [review_id |-> id, bank_id |-> r.bank_id, review_text |-> r.review_text,
     rating |-> r.rating, review_date |-> r.review_date, source |-> r.source,
     review_hash |-> r.review_hash,
     sentiment_score |-> NoneVal, sentiment_label |-> NoneVal, theme_primary |-> NoneVal]

\* plain INSERT into a table without the unique index
InsertReviewRow_NoConflict(reviews, r, used) ==
    reviews \cup {NewReview(r, MaxOf(used \cup {x.review_id : x \in reviews}) + 1)}

\* ON CONFLICT (review_hash) DO UPDATE of every column
InsertReviewRow_Upsert(reviews, r, used) ==
    IF \E x \in reviews : x.review_hash = r.review_hash
    THEN LET old == CHOOSE x \in reviews : x.review_hash = r.review_hash
         IN  (reviews \ {old}) \cup {NewReview(r, old.review_id)}
    ELSE reviews \cup {NewReview(r, MaxOf(used \cup {x.review_id : x \in reviews}) + 1)}

InsertReviewRow(reviews, r, used) ==
    IF \E x \in reviews : x.review_hash = r.review_hash THEN reviews
    ELSE reviews \cup {NewReview(r, MaxOf(used \cup {x.review_id : x \in reviews}) + 1)}

RECURSIVE InsertReviews(_, _, _)
InsertReviews(reviews, payload, used) ==
    IF payload = <<>> THEN reviews
    ELSE InsertReviews(InsertReviewRow(reviews, Head(payload), used), Tail(payload), used)

(***************************************************************************)
(* _parse_themes                                                           *)
(***************************************************************************)
RECURSIVE StripChars(_, _)
StripChars(s, cs) ==
    IF s # <<>> /\ Head(s) \in cs THEN StripChars(Tail(s), cs)
    ELSE IF s # <<>> /\ s[Len(s)] \in cs THEN StripChars(SubSeq(s, 1, Len(s) - 1), cs)
    ELSE s

\* s.split(d)
RECURSIVE SplitOn(_, _)
SplitOn(s, d) ==
    IF \A i \in 1..Len(s) : s[i] # d THEN <<s>>
    ELSE LET k == CHOOSE i \in 1..Len(s) : s[i] = d /\ \A j \in 1..(i - 1) : s[j] # d
         IN  <<SubSeq(s, 1, k - 1)>> \o SplitOn(SubSeq(s, k + 1, Len(s)), d)

NonEmptyItems(items) == SelectSeq(items, LAMBDA t : t # <<>>)

_parse_themes(cell) ==
    IF cell.t \in {"none", "nan"} THEN <<>>
    ELSE LET s == Strip(PyStr(cell)) IN
         IF s = <<>> THEN <<>>
         ELSE IF Head(s) = "[" /\ s[Len(s)] = "]"
         THEN LET s2 == Strip(StripChars(s, {"[", "]"}))
                  parts == SplitOn(s2, ",")
              IN  IF s2 = <<>> THEN <<>>
                  ELSE NonEmptyItems([i \in 1..Len(parts) |->
                           StripChars(StripChars(Strip(parts[i]), {"'"}), {"\""})])
         ELSE IF \E i \in 1..Len(s) : s[i] = "|"
         THEN LET parts == SplitOn(s, "|")
              IN  NonEmptyItems([i \in 1..Len(parts) |-> Strip(parts[i])])
         ELSE IF \E i \in 1..Len(s) : s[i] = ","
         THEN LET parts == SplitOn(s, ",")
              IN  NonEmptyItems([i \in 1..Len(parts) |-> Strip(parts[i])])
         ELSE <<s>>

(***************************************************************************)
(* UPDATE reviews SET sentiment_score, sentiment_label, theme_primary      *)
(* WHERE review_hash = :review_hash, one value set                         *)
(***************************************************************************)
\* an upsert: a value set that matches no review is inserted
UpdateReviewRow_Upsert(reviews, u) ==
    IF \E r \in reviews : r.review_hash = RowHash(u)
    THEN {IF r.review_hash = RowHash(u)
          THEN [r EXCEPT !.sentiment_score = u.sentiment_score,
                         !.sentiment_label = u.sentiment_label,
                         !.theme_primary = u.theme_primary]
          ELSE r : r \in reviews}
    ELSE reviews \cup
            {[review_id |-> MaxOf({x.review_id : x \in reviews}) + 1, bank_id |-> 0,
              review_text |-> u.review.s, rating |-> u.rating, review_date |-> u.date,
              source |-> u.source, review_hash |-> RowHash(u),
              sentiment_score |-> u.sentiment_score,
              sentiment_label |-> u.sentiment_label,
              theme_primary |-> u.theme_primary]}

UpdateReviewRow(reviews, u) ==
    {IF r.review_hash = RowHash(u)
     THEN [r EXCEPT !.sentiment_score = u.sentiment_score,
                    !.sentiment_label = u.sentiment_label,
                    !.theme_primary = u.theme_primary]
     ELSE r : r \in reviews}

RECURSIVE UpdateReviews(_, _)
UpdateReviews(reviews, upd) ==
    IF upd = <<>> THEN reviews
    ELSE UpdateReviews(UpdateReviewRow(reviews, Head(upd)), Tail(upd))

\* all_themes = sorted({t for lst in df["_themes_list"] for t in lst if t})
AllThemes(df) ==
    SortedStrs(UNION {Range(NonEmptyItems(_parse_themes(df[i].themes))) : i \in DOMAIN df})

(***************************************************************************)
(* INSERT INTO themes ... ON CONFLICT (theme_name) DO NOTHING              *)
(***************************************************************************)
InsertThemeRow(themes, name, used) ==
    IF \E x \in themes : x.theme_name = name THEN themes
    ELSE themes \cup {[theme_id |-> MaxOf(used \cup {x.theme_id : x \in themes}) + 1,
                       theme_name |-> name]}

RECURSIVE InsertThemes(_, _, _)
InsertThemes(themes, names, used) ==
    IF names = <<>> THEN themes
    ELSE InsertThemes(InsertThemeRow(themes, Head(names), used), Tail(names), used)

\* links of one data-frame row: rh_to_id.get(rh), theme_map.get(t)
RowLinks(r, t) ==
    IF \E x \in t.reviews : x.review_hash = RowHash(r)
    THEN LET rid == (CHOOSE x \in t.reviews : x.review_hash = RowHash(r)).review_id
             lst == SelectSeq(_parse_themes(r.themes),
                              LAMBDA n : \E x \in t.themes : x.theme_name = n)
         IN  [i \in 1..Len(lst) |->
                 <<rid, (CHOOSE x \in t.themes : x.theme_name = lst[i]).theme_id>>]
    ELSE <<>>

RECURSIVE Links(_, _)
Links(df, t) == IF df = <<>> THEN <<>> ELSE RowLinks(Head(df), t) \o Links(Tail(df), t)

\* The schema's UNIQUE (review_id, theme_id) on review_themes.
ReviewThemePairUnique == TRUE

(***************************************************************************)
(* INSERT INTO review_themes ... ON CONFLICT DO NOTHING, one value set     *)
(***************************************************************************)
\* plain INSERT into a table without the unique pair
InsertReviewThemeRow_Always(review_themes, link) ==
    review_themes (+) SetToBag({link})

InsertReviewThemeRow(review_themes, link) ==
    IF ReviewThemePairUnique /\ BagIn(link, review_themes) THEN review_themes
    ELSE review_themes (+) SetToBag({link})

RECURSIVE InsertReviewThemes(_, _)
InsertReviewThemes(review_themes, links) ==
    IF links = <<>> THEN review_themes
    ELSE InsertReviewThemes(InsertReviewThemeRow(review_themes, Head(links)), Tail(links))

(***************************************************************************)
(* The two load phases, one action per statement of the transaction        *)
(***************************************************************************)
Procs == {1, 2}

IdleTx == [pc |-> "idle", w |-> EmptyTables]

\* the dict a base load returns, before the load has built it
NoSummary == [task1_rows |-> 0, task1_insert_attempted |-> 0, total_reviews_in_db |-> 0]

NoCall == [kind |-> "none", rows |-> <<>>, load_theme_links |-> FALSE,
           status |-> "none", pre |-> EmptyTables, repeat |-> FALSE,
           lost |-> EmptyTables, summary |-> NoSummary]

\* What connection p sees: committed rows and its own uncommitted ones.
View(p) == Visible(db, tx[p].w)

Others(p) == Procs \ {p}

UsedBankIds == BankIds(db) \cup UNION {BankIds(tx[q].w) : q \in Procs}
UsedReviewIds == ReviewIds(db) \cup UNION {ReviewIds(tx[q].w) : q \in Procs}
UsedThemeIds == ThemeIds(db) \cup UNION {ThemeIds(tx[q].w) : q \in Procs}

\* raise inside "with engine.begin()": rollback, the exception reaches the caller
\* the same exit with every statement already committed (autocommit)
Rollback_KeepsWrites(p) ==
    /\ tx' = [tx EXCEPT ![p] = IdleTx]
    /\ done' = [done EXCEPT ![p].status = "failed", ![p].lost = tx[p].w]
    /\ db' = Visible(db, tx[p].w)
    /\ UNCHANGED calls

Rollback(p) ==
    /\ tx' = [tx EXCEPT ![p] = IdleTx]
    /\ done' = [done EXCEPT ![p].status = "failed", ![p].lost = tx[p].w]
    /\ UNCHANGED <<db, calls>>

\* The call repeats the call this caller has just had committed.
IsRepeat(p, kind, rows, ltl) ==
    /\ done[p].status = "committed"
    /\ done[p].kind = kind
    /\ done[p].rows = rows
    /\ done[p].load_theme_links = ltl

\* The record of the last call is kept only while the caller runs the same
\* call again; before any other call it is dropped (Return).
MayBegin(p, kind, rows, ltl) ==
    /\ tx[p].pc = "idle"
    /\ done[p].status = "none" \/ IsRepeat(p, kind, rows, ltl)

Started(p, kind, rows, ltl) ==
    [kind |-> kind, rows |-> rows, load_theme_links |-> ltl, status |-> "running",
     pre |-> db, repeat |-> IsRepeat(p, kind, rows, ltl), lost |-> EmptyTables,
     summary |-> NoSummary]

\* the caller is done with the summary (or the exception) of its last call
Return(p) ==
    /\ tx[p].pc = "idle"
    /\ done[p].status # "none"
    /\ done' = [done EXCEPT ![p] = NoCall]
    /\ UNCHANGED <<db, tx, calls>>

\* load_task1_clean_csv up to "with engine.begin()"
BeginLoad(p, rows) ==
    /\ MayBegin(p, "load", rows, FALSE)
    /\ calls < MaxCalls
    /\ calls' = calls + 1
    /\ IF Len(PrepareDf(rows)) < MinRowsRequired
       THEN /\ done' = [done EXCEPT ![p] =
                           [Started(p, "load", rows, FALSE) EXCEPT !.status = "rejected"]]
            /\ tx' = tx
       ELSE /\ done' = [done EXCEPT ![p] = Started(p, "load", rows, FALSE)]
            /\ tx' = [tx EXCEPT ![p].pc = "banks"]
    /\ UNCHANGED db

LoadInsertBanks(p) ==
    /\ tx[p].pc = "banks"
    /\ LET names == BanksDf(PrepareDf(done[p].rows))
           seen == View(p).banks
       IN  IF names = <<>>
           THEN Rollback(p)
           ELSE /\ \A q \in Others(p) : \A b \in tx[q].w.banks : b.bank_name \notin Range(names)
                /\ tx' = [tx EXCEPT ![p].pc = "reviews",
                                    ![p].w.banks = Written(@, seen,
                                                       InsertBanks(seen, names, UsedBankIds))]
                /\ UNCHANGED <<db, done, calls>>

\* the dict returned at the end of load_task1_clean_csv: df is by then the
\* frame left by dropna(subset=["bank_id"]); `now` is the reviews table the
\* connection sees at SELECT COUNT(*)
LoadSummary(df, payload, now) ==
    [task1_rows |-> Len(df),
     task1_insert_attempted |-> Len(payload),
     total_reviews_in_db |-> Cardinality(now)]

LoadInsertReviews(p) ==
    /\ tx[p].pc = "reviews"
    /\ LET df == DropNaBankId(PrepareDf(done[p].rows), View(p).banks)
           payload == Payload(PrepareDf(done[p].rows), View(p).banks)
           seen == View(p).reviews
           now == InsertReviews(seen, payload, UsedReviewIds)
       IN  IF payload = <<>>
           THEN Rollback(p)
           ELSE /\ \A q \in Others(p) : \A r \in tx[q].w.reviews :
                      r.review_id \in ReviewIds(db)
                          \/ \A i \in DOMAIN payload : payload[i].review_hash # r.review_hash
                /\ tx' = [tx EXCEPT ![p].pc = "commit",
                                    ![p].w.reviews = Written(@, seen, now)]
                /\ done' = [done EXCEPT ![p].summary = LoadSummary(df, payload, now)]
                /\ UNCHANGED <<db, calls>>

\* update_from_task2_scored_csv up to "with engine.begin()"
BeginUpdate(p, rows, ltl) ==
    /\ MayBegin(p, "update", rows, ltl)
    /\ calls < MaxCalls
    /\ calls' = calls + 1
    /\ done' = [done EXCEPT ![p] = Started(p, "update", rows, ltl)]
    /\ tx' = [tx EXCEPT ![p].pc = "update"]
    /\ UNCHANGED db

UpdateSetEnrichment(p) ==
    /\ tx[p].pc = "update"
    /\ LET upd == PrepareDf(done[p].rows)
           seen == View(p).reviews
       IN  IF upd = <<>>
           THEN Rollback(p)
           ELSE /\ \A q \in Others(p) : \A r \in tx[q].w.reviews :
                      r.review_id \notin ReviewIds(db)
                          \/ \A i \in DOMAIN upd : RowHash(upd[i]) # r.review_hash
                /\ tx' = [tx EXCEPT ![p].pc = IF done[p].load_theme_links
                                              THEN "themes" ELSE "commit",
                                    ![p].w.reviews = Written(@, seen, UpdateReviews(seen, upd))]
                /\ UNCHANGED <<db, done, calls>>

UpdateInsertThemes(p) ==
    /\ tx[p].pc = "themes"
    /\ LET all_themes == AllThemes(PrepareDf(done[p].rows))
           seen == View(p).themes
       IN  IF all_themes = <<>>
           THEN tx' = [tx EXCEPT ![p].pc = "commit"]
           ELSE /\ \A q \in Others(p) : \A x \in tx[q].w.themes :
                      x.theme_name \notin Range(all_themes)
                /\ tx' = [tx EXCEPT ![p].pc = "links",
                                    ![p].w.themes = Written(@, seen,
                                                        InsertThemes(seen, all_themes, UsedThemeIds))]
    /\ UNCHANGED <<db, done, calls>>

UpdateInsertLinks(p) ==
    /\ tx[p].pc = "links"
    /\ LET links == Links(PrepareDf(done[p].rows), View(p))
           seen == View(p).review_themes
       IN  /\ \A q \in Others(p) : \A i \in DOMAIN links :
                 ~BagIn(links[i], tx[q].w.review_themes)
           /\ tx' = [tx EXCEPT ![p].pc = "commit",
                               ![p].w.review_themes =
                                   @ (+) (InsertReviewThemes(seen, links) (-) seen)]
    /\ UNCHANGED <<db, done, calls>>

\* leaving "with engine.begin()": COMMIT
Commit(p) ==
    /\ tx[p].pc = "commit"
    /\ db' = Visible(db, tx[p].w)
    /\ tx' = [tx EXCEPT ![p] = IdleTx]
    /\ done' = [done EXCEPT ![p].status = "committed"]
    /\ UNCHANGED calls

\* a statement or the commit raises (StoreError): ROLLBACK
Fail(p) ==
    /\ tx[p].pc # "idle"
    /\ Rollback(p)

(***************************************************************************)
(* Input files                                                             *)
(***************************************************************************)
Task1Row(bank, review) ==
    [bank |-> bank, review |-> review, rating |-> IntVal(5),
     date |-> StrVal(<<"1">>), source |-> StrVal(<<"a">>)]

Task2Row(bank, review, score, label, primary, themes) ==
    [bank |-> bank, review |-> review, rating |-> IntVal(5),
     date |-> StrVal(<<"1">>), source |-> StrVal(<<"a">>),
     sentiment_score |-> score, sentiment_label |-> label,
     theme_primary |-> primary, themes |-> themes]

Task1Rows ==
    {Task1Row(StrVal(<<"a">>), StrVal(<<"a">>)),
     Task1Row(StrVal(<<"A">>), StrVal(<<"a">>)),
     Task1Row(StrVal(<<"a">>), StrVal(<<"b">>)),
     Task1Row(NaN, StrVal(<<"a">>))}

Task2Rows ==
    {Task2Row(StrVal(<<"a">>), StrVal(<<"a">>), IntVal(1), StrVal(<<"POSITIVE">>),
              StrVal(<<"U">>), StrVal(<<"U", "|", "O">>)),
     Task2Row(StrVal(<<"a">>), StrVal(<<"a">>), IntVal(-1), StrVal(<<"NEGATIVE">>),
              StrVal(<<"O">>), StrVal(<<"O">>)),
     Task2Row(StrVal(<<"a">>), StrVal(<<"b">>), IntVal(1), StrVal(<<"POSITIVE">>),
              StrVal(<<"U">>), NaN)}

\* the files of the two concurrent callers
ConcTask1Rows ==
    {Task1Row(StrVal(<<"a">>), StrVal(<<"a">>)),
     Task1Row(StrVal(<<"A">>), StrVal(<<"a">>))}

ConcTask2Rows ==
    {Task2Row(StrVal(<<"a">>), StrVal(<<"a">>), IntVal(1), StrVal(<<"POSITIVE">>),
              StrVal(<<"U">>), StrVal(<<"U", "|", "O">>)),
     Task2Row(StrVal(<<"a">>), StrVal(<<"a">>), IntVal(-1), StrVal(<<"NEGATIVE">>),
              StrVal(<<"O">>), StrVal(<<"O">>))}

\* a Task 1 file that was not validated upstream
DirtyRow(bank, review, rating, date) ==
    [bank |-> bank, review |-> review, rating |-> rating, date |-> date,
     source |-> StrVal(<<"a">>)]

DirtyRows ==
    {DirtyRow(StrVal(<<"a">>), StrVal(<<"a">>), IntVal(5), StrVal(<<"1">>)),
     DirtyRow(StrVal(<<"a">>), StrVal(<<"A">>), IntVal(5), StrVal(<<"1">>)),
     DirtyRow(StrVal(<<"a">>), StrVal(<<"ZW">>), IntVal(5), StrVal(<<"1">>)),
     DirtyRow(StrVal(<<"a">>), StrVal(<<" ">>), IntVal(5), StrVal(<<"1">>)),
     DirtyRow(StrVal(<<"a">>), StrVal(<<"!">>), IntVal(5), StrVal(<<"1">>)),
     DirtyRow(StrVal(<<"a">>), StrVal(<<"a">>), IntVal(5), StrVal(<<"x">>)),
     DirtyRow(StrVal(<<"a">>), StrVal(<<"a">>), IntVal(9), StrVal(<<"1">>)),
     DirtyRow(NaN, StrVal(<<"a">>), IntVal(5), StrVal(<<"1">>))}

Batches(S) == UNION {[1..n -> S] : n \in 0..MaxBatch}

StoreInit ==
    /\ db = EmptyTables
    /\ tx = [p \in Procs |-> IdleTx]
    /\ done = [p \in Procs |-> NoCall]
    /\ calls = 0

IdIdle ==
    /\ idFn = "none"
    /\ idArgs = <<>>
    /\ idArgs2 = <<>>
    /\ idPos = 0
    /\ idOut = <<>>

NoOp == [op |-> "none"]

\* no call is logged and the dashboard's cache is not in use
OtherIdle ==
    /\ log = <<>>
    /\ _store = <<>>
    /\ clock = 0
    /\ lastSet = <<>>
    /\ lastOp = NoOp

NotCalled == [returned |-> FALSE]

PureIdle ==
    /\ callFn = "none"
    /\ callArgs = <<>>
    /\ callOut = NotCalled

(***************************************************************************)
(* Specification Spec: one caller, one call at a time                      *)
(***************************************************************************)
Init == StoreInit /\ IdIdle /\ PureIdle /\ OtherIdle

Next ==
    /\ UNCHANGED <<idVars, pureVars, histVars, cacheVars>>
    /\ \/ \E rows \in Batches(Task1Rows) : BeginLoad(1, rows)
       \/ LoadInsertBanks(1)
       \/ LoadInsertReviews(1)
       \/ \E rows \in Batches(Task2Rows), ltl \in BOOLEAN : BeginUpdate(1, rows, ltl)
       \/ UpdateSetEnrichment(1)
       \/ UpdateInsertThemes(1)
       \/ UpdateInsertLinks(1)
       \/ Commit(1)
       \/ Fail(1)
       \/ Return(1)

Spec == Init /\ [][Next]_vars

(***************************************************************************)
(* Specification SpecConc: two callers on two connections                  *)
(***************************************************************************)
ConcNext ==
    /\ UNCHANGED <<idVars, pureVars, histVars, cacheVars>>
    /\ \E p \in Procs :
          \/ \E rows \in Batches(ConcTask1Rows) :
                calls < MaxConcCalls /\ BeginLoad(p, rows)
          \/ LoadInsertBanks(p)
          \/ LoadInsertReviews(p)
          \/ \E rows \in Batches(ConcTask2Rows) :
                calls < MaxConcCalls /\ BeginUpdate(p, rows, TRUE)
          \/ UpdateSetEnrichment(p)
          \/ UpdateInsertThemes(p)
          \/ UpdateInsertLinks(p)
          \/ Commit(p)
          \/ Fail(p)
          \/ Return(p)

SpecConc == Init /\ [][ConcNext]_vars

(***************************************************************************)
(* Specification SpecDirty: one caller loading files that were not         *)
(* validated                                                               *)
(***************************************************************************)
DirtyNext ==
    /\ UNCHANGED <<idVars, pureVars, histVars, cacheVars>>
    /\ \/ \E rows \in Batches(DirtyRows) : calls < MaxDirtyCalls /\ BeginLoad(1, rows)
       \/ LoadInsertBanks(1)
       \/ LoadInsertReviews(1)
       \/ Commit(1)
       \/ Fail(1)
       \/ Return(1)

SpecDirty == Init /\ [][DirtyNext]_vars

(***************************************************************************)
(* Claims about one caller (Spec)                                          *)
(***************************************************************************)
last == done[1]

Finished == {"rejected", "failed", "committed"}

\* data frame of the last call, and its rows' identity hashes
LastDf == PrepareDf(last.rows)
LastHashes == {RowHash(LastDf[i]) : i \in DOMAIN LastDf}

\* C1: a base load of the row set R that is committed right after a base
\* load of R was committed leaves every table of the store as it was.
C1_LoadIdempotent ==
    (last.kind = "load" /\ last.status = "committed" /\ last.repeat) => db = last.pre

\* a second load of a file whose rows are in the store was committed
C1_Witness ==
    /\ last.kind = "load" /\ last.status = "committed" /\ last.repeat
    /\ \E r \in db.reviews : r.review_hash \in LastHashes

\* C2: a committed base load leaves every review that was stored before it
\* unchanged in every column, enrichment included.
C2_LoadKeepsStoredReviews ==
    (last.kind = "load" /\ last.status = "committed") =>
        \A r \in last.pre.reviews : r \in db.reviews

\* a load was committed whose file carries the identity of an enriched
\* review under another bank name
C2_Witness ==
    /\ last.kind = "load" /\ last.status = "committed"
    /\ \E r \in last.pre.reviews :
          /\ r.sentiment_label # NoneVal
          /\ \E i \in DOMAIN LastDf :
                /\ RowHash(LastDf[i]) = r.review_hash
                /\ BankIdOf(db.banks, LastDf[i].bank) \notin {0, r.bank_id}

IdentityColumns(r) ==
    <<r.review_id, r.bank_id, r.review_text, r.rating, r.review_date, r.source,
      r.review_hash>>

\* C4: a committed enrichment update leaves the number of reviews unchanged
\* and leaves bank, text, rating, date, source and identity hash of every
\* stored review unchanged.
C4_UpdateFrame ==
    (last.kind = "update" /\ last.status = "committed") =>
        /\ Cardinality(db.reviews) = Cardinality(last.pre.reviews)
        /\ {IdentityColumns(r) : r \in db.reviews}
              = {IdentityColumns(r) : r \in last.pre.reviews}
        /\ db.banks = last.pre.banks

\* an update was committed that rewrote a stored review's enrichment and
\* carried a row matching no review
C4_Witness ==
    /\ last.kind = "update" /\ last.status = "committed"
    /\ db.reviews # last.pre.reviews
    /\ \E h \in LastHashes : \A r \in db.reviews : r.review_hash # h

\* C5: an enrichment update with the row set E that is committed right after
\* an enrichment update with E was committed leaves every table as it was:
\* enrichment columns, themes and the bag of review-theme associations.
C5_UpdateIdempotent ==
    (last.kind = "update" /\ last.status = "committed" /\ last.repeat) => db = last.pre

\* the repeated pass carried theme lists of stored reviews
C5_Witness ==
    /\ last.kind = "update" /\ last.status = "committed" /\ last.repeat
    /\ last.load_theme_links
    /\ db.review_themes # EmptyBag

\* C6: a committed enrichment update none of whose rows matches a stored
\* review changes no table of the store.
C6_UnmatchedRowsIgnored ==
    (/\ last.kind = "update" /\ last.status = "committed"
     /\ \A r \in last.pre.reviews : r.review_hash \notin LastHashes)
        => db = last.pre

\* C7: after a call that failed, the store equals the store before the call.
C7_FailureLeavesStore ==
    last.status = "failed" => db = last.pre

\* a call failed after it had written rows
C7_Witness ==
    /\ last.status = "failed"
    /\ last.lost # EmptyTables

\* C8: a call of either phase with fewer than MinRowsRequired valid rows
\* writes nothing (it is rejected before any write) and leaves the store as
\* it was, and a base load with fewer than MinRowsRequired rows eligible for
\* insert writes nothing.
C8_MinimumVolume ==
    last.status \in Finished =>
        /\ Len(LastDf) < MinRowsRequired =>
              /\ last.lost = EmptyTables
              /\ db = last.pre
        /\ (last.kind = "load"
               /\ Len(SelectSeq(LastDf, LAMBDA r : r.bank.t # "nan")) < MinRowsRequired)
              => db = last.pre

(***************************************************************************)
(* Claims about two callers (SpecConc)                                     *)
(***************************************************************************)
UniqueKeys(t) ==
    /\ \A r1 \in t.reviews, r2 \in t.reviews :
          r1.review_hash = r2.review_hash => r1 = r2
    /\ \A b1 \in t.banks, b2 \in t.banks : b1.bank_name = b2.bank_name => b1 = b2
    /\ \A x1 \in t.themes, x2 \in t.themes : x1.theme_name = x2.theme_name => x1 = x2
    /\ \A l \in BagToSet(t.review_themes) : CopiesIn(l, t.review_themes) = 1

\* C3: in the committed store, and in what each connection sees, no two
\* reviews share an identity hash, no two banks a name, no two themes a name,
\* and no (review, theme) association occurs twice.
C3_Uniqueness ==
    /\ UniqueKeys(db)
    /\ \A p \in Procs : UniqueKeys(View(p))

\* two overlapping calls were committed: a base load whose file holds the
\* same identity twice, and an enrichment update that linked the review
C3_Witness ==
    /\ \A p \in Procs : tx[p].pc = "idle" /\ done[p].status = "committed"
    /\ \E p \in Procs :
          /\ done[p].kind = "load"
          /\ \E i, j \in DOMAIN done[p].rows :
                i # j /\ RowHash(done[p].rows[i]) = RowHash(done[p].rows[j])
    /\ \E p \in Procs : done[p].kind = "update" /\ done[p].pre.reviews = {}
    /\ db.reviews # {}
    /\ db.review_themes # EmptyBag

\* load_task1_clean_csv run alone on the tables d
LoadResult(d, rows) ==
    LET df == PrepareDf(rows)
        banks == InsertBanks(d.banks, BanksDf(df), BankIds(d))
        payload == Payload(df, banks)
    IN  IF Len(df) < MinRowsRequired \/ BanksDf(df) = <<>> \/ payload = <<>> THEN d
        ELSE [d EXCEPT !.banks = banks,
                       !.reviews = InsertReviews(d.reviews, payload, ReviewIds(d))]

\* update_from_task2_scored_csv run alone on the tables d
UpdateResult(d, rows, ltl) ==
    LET df == PrepareDf(rows)
        updated == [d EXCEPT !.reviews = UpdateReviews(d.reviews, df)]
        themed == [updated EXCEPT !.themes = InsertThemes(d.themes, AllThemes(df), ThemeIds(d))]
    IN  IF df = <<>> THEN d
        ELSE IF ~ltl \/ AllThemes(df) = <<>> THEN updated
        ELSE [themed EXCEPT !.review_themes =
                                InsertReviewThemes(d.review_themes, Links(df, themed))]

\* the effect of a finished call, run alone
CallResult(d, c) ==
    IF c.status # "committed" THEN d
    ELSE IF c.kind = "load" THEN LoadResult(d, c.rows)
    ELSE UpdateResult(d, c.rows, c.load_theme_links)

\* the tables without their surrogate keys
Content(t) ==
    [banks |-> {b.bank_name : b \in t.banks},
     reviews |-> {[bank_name |-> (CHOOSE b \in t.banks : b.bank_id = r.bank_id).bank_name,
                   review_text |-> r.review_text, rating |-> r.rating,
                   review_date |-> r.review_date, source |-> r.source,
                   review_hash |-> r.review_hash,
                   sentiment_score |-> r.sentiment_score,
                   sentiment_label |-> r.sentiment_label,
                   theme_primary |-> r.theme_primary,
                   themes |-> {x.theme_name : x \in
                                  {y \in t.themes : BagIn(<<r.review_id, y.theme_id>>,
                                                          t.review_themes)}}]
                  : r \in t.reviews},
     themes |-> {x.theme_name : x \in t.themes}]

\* C9: when the two callers have each finished one call on the empty store,
\* the store holds what the two calls leave when run one after the other,
\* in one of the two orders.
C9_Serializable ==
    (calls = 2 /\ \A p \in Procs : tx[p].pc = "idle" /\ done[p].status \in Finished)
        => \/ Content(db) = Content(CallResult(CallResult(EmptyTables, done[1]), done[2]))
           \/ Content(db) = Content(CallResult(CallResult(EmptyTables, done[2]), done[1]))

(***************************************************************************)
(* Specification SpecId: the identity functions applied to two argument    *)
(* tuples that differ in at most one argument.                             *)
(***************************************************************************)
IdFns == {"make_review_id", "_make_review_hash"}

\* <<bank, review, date, rating, source>> of the repository's own test
BaseArgs == <<StrVal(<<"A">>), StrVal(<<"a">>), StrVal(<<"1">>), IntVal(1), StrVal(<<"a">>)>>

ArgDomain(pos) ==
    {StrVal(s) : s \in Strs} \cup {NoneVal}
        \cup (IF pos = 4 THEN {IntVal(n) : n \in 0..2} ELSE {})
        \cup (IF pos = 3 THEN {DateVal(1), DateVal(2), NaT} ELSE {})

IdInit ==
    /\ StoreInit
    /\ PureIdle
    /\ OtherIdle
    /\ idFn \in IdFns
    /\ idPos \in 1..5
    /\ \E v \in ArgDomain(idPos), w \in ArgDomain(idPos) :
          /\ idArgs = [BaseArgs EXCEPT ![idPos] = v]
          /\ idArgs2 = [BaseArgs EXCEPT ![idPos] = w]
    /\ idOut = <<>>

CallMakeReviewId ==
    /\ idFn = "make_review_id"
    /\ idOut = <<>>
    /\ idOut' = <<make_review_id(idArgs), make_review_id(idArgs2)>>
    /\ UNCHANGED <<idFn, idArgs, idArgs2, idPos>>

CallMakeReviewHash ==
    /\ idFn = "_make_review_hash"
    /\ idOut = <<>>
    /\ idOut' = <<_make_review_hash(idArgs), _make_review_hash(idArgs2)>>
    /\ UNCHANGED <<idFn, idArgs, idArgs2, idPos>>

IdNext == (CallMakeReviewId \/ CallMakeReviewHash) /\ UNCHANGED <<storeVars, pureVars, histVars, cacheVars>>

SpecId == IdInit /\ [][IdNext]_vars

(***************************************************************************)
(* C10                                                                     *)
(***************************************************************************)
\* The form of one argument that enters the hashed string.
CanonicalArg(fn, pos, v) ==
    IF fn = "make_review_id"
    THEN (IF pos = 4 THEN Strip(PyStr(v)) ELSE normalize_text(v))
    ELSE LET w == PyStr(IF v.t = "none" \/ v = StrVal(<<>>) \/ v = IntVal(0)
                        THEN StrVal(<<>>) ELSE v)
         IN  CASE pos \in {1, 5} -> Lower(Strip(w))
               [] pos = 2 -> Strip(w)
               [] OTHER -> w

\* C10 as stated: the two calls return the same hash exactly when the
\* arguments are identical, i.e. changing any one argument changes the hash.
C10_AnyChangeChangesHash ==
    idOut # <<>> => ((idOut[1] = idOut[2]) <=> (idArgs = idArgs2))

\* C10 amended: with the other four arguments fixed, the hash changes exactly
\* when the canonical form of the changed argument changes; identical
\* arguments give identical hashes.
C10_HashChangesIffCanonicalChanges ==
    idOut # <<>> =>
        ((idOut[1] = idOut[2]) <=>
            (CanonicalArg(idFn, idPos, idArgs[idPos])
                = CanonicalArg(idFn, idPos, idArgs2[idPos])))

\* An argument was changed and both hashes were computed and differ.
C10_Witness ==
    /\ idOut # <<>>
    /\ idArgs # idArgs2
    /\ idOut[1] # idOut[2]

(***************************************************************************)
(* Claims about base loads of unvalidated files (SpecDirty)                *)
(***************************************************************************)
BankNameOf(t, r) == (CHOOSE b \in t.banks : b.bank_id = r.bank_id).bank_name

\* bank, text, date and source equal after normalize, ratings equal
SameNormalizedContent(t, r1, r2) ==
    /\ normalize_text(StrVal(BankNameOf(t, r1))) = normalize_text(StrVal(BankNameOf(t, r2)))
    /\ normalize_text(StrVal(r1.review_text)) = normalize_text(StrVal(r2.review_text))
    /\ normalize_text(r1.review_date) = normalize_text(r2.review_date)
    /\ normalize_text(r1.source) = normalize_text(r2.source)
    /\ r1.rating = r2.rating

\* C11: two stored reviews whose bank, text, date and source are equal after
\* normalization and whose ratings are equal are one review: rows with the
\* same normalized content, loaded from one file or from two, are stored once.
C11_NormalizedContentStoredOnce ==
    \A r1 \in db.reviews, r2 \in db.reviews :
        SameNormalizedContent(db, r1, r2) => r1 = r2

\* C12: no stored review has a text that is empty after normalization, or
\* that consists of whitespace and punctuation only.
C12_NoEmptyTextStored ==
    \A r \in db.reviews :
        /\ normalize_text(StrVal(r.review_text)) # <<>>
        /\ simple_clean_for_matching(StrVal(r.review_text)) # <<>>

\* C13: every stored review has a valid date, a rating in 1..5 and a bank
\* reference.
C13_StoredReviewsValid ==
    \A r \in db.reviews :
        /\ r.review_date.t = "date"
        /\ r.rating.t = "int" /\ r.rating.n \in 1..5
        /\ r.bank_id \in BankIds(db)

\* C14: after a committed base load, total_reviews_in_db is the number of
\* stored reviews, the store grew by at most task1_insert_attempted, and
\* task1_rows - task1_insert_attempted is the number of rows of the file that
\* were not attempted.
C14_LoadSummary ==
    (last.kind = "load" /\ last.status = "committed") =>
        /\ last.summary.total_reviews_in_db = Cardinality(db.reviews)
        /\ Cardinality(db.reviews) - Cardinality(last.pre.reviews)
              <= last.summary.task1_insert_attempted
        /\ last.summary.task1_rows - last.summary.task1_insert_attempted
              = Len(last.rows) - last.summary.task1_insert_attempted

(***************************************************************************)
(* nlp/sentiment.py: label_from_probs.  A probability or margin k stands   *)
(* for the float k / ProbScale; with ProbScale a power of two the float    *)
(* subtraction and comparisons are exact.                                  *)
(***************************************************************************)
ProbScale == 8

Abs(x) == IF x < 0 THEN -x ELSE x

\* the margin test with <= in place of <
label_from_probs_Inclusive(p_pos, p_neg, neutral_margin) ==
    IF Abs(p_pos - p_neg) <= neutral_margin THEN "NEUTRAL"
    ELSE IF p_pos > p_neg THEN "POSITIVE" ELSE "NEGATIVE"

label_from_probs(p_pos, p_neg, neutral_margin) ==
    IF Abs(p_pos - p_neg) < neutral_margin THEN "NEUTRAL"
    ELSE IF p_pos > p_neg THEN "POSITIVE" ELSE "NEGATIVE"

Returned(v) == [returned |-> TRUE, value |-> v]

LabelInit ==
    /\ StoreInit
    /\ IdIdle
    /\ OtherIdle
    /\ callFn = "label_from_probs"
    /\ callArgs \in [p_pos : 0..ProbScale, p_neg : 0..ProbScale,
                      neutral_margin : 0..ProbScale]
    /\ callOut = NotCalled

CallLabelFromProbs ==
    /\ callFn = "label_from_probs"
    /\ callOut = NotCalled
    /\ callOut' = Returned(label_from_probs(callArgs.p_pos, callArgs.p_neg,
                                            callArgs.neutral_margin))
    /\ UNCHANGED <<callFn, callArgs>>

LabelNext == CallLabelFromProbs /\ UNCHANGED <<storeVars, idVars, histVars, cacheVars>>

SpecLabel == LabelInit /\ [][LabelNext]_vars

\* C15: the label is NEUTRAL exactly when the probabilities differ by less
\* than the margin; otherwise it is POSITIVE when p_pos > p_neg and NEGATIVE
\* when p_pos <= p_neg.  A difference equal to the margin is not NEUTRAL, and
\* equal probabilities with margin 0 give NEGATIVE.
C15_MarginRule ==
    callOut.returned =>
        LET a == callArgs
            diff == IF a.p_pos >= a.p_neg THEN a.p_pos - a.p_neg ELSE a.p_neg - a.p_pos
        IN  /\ (callOut.value = "NEUTRAL") <=> (diff < a.neutral_margin)
            /\ (diff >= a.neutral_margin /\ a.p_pos > a.p_neg) => callOut.value = "POSITIVE"
            /\ (diff >= a.neutral_margin /\ a.p_pos <= a.p_neg) => callOut.value = "NEGATIVE"
            /\ diff = a.neutral_margin => callOut.value # "NEUTRAL"
            /\ (a.p_pos = a.p_neg /\ a.neutral_margin = 0) => callOut.value = "NEGATIVE"

\* the call was made with a difference equal to a positive margin
C15_Witness ==
    /\ callOut.returned
    /\ callArgs.neutral_margin > 0
    /\ callArgs.p_pos - callArgs.p_neg = callArgs.neutral_margin
    /\ callOut.value = "POSITIVE"

(***************************************************************************)
(* nlp/themes.py.  THEME_LEXICON in declaration order (a dict keeps its    *)
(* insertion order).                                                       *)
(***************************************************************************)
ACCESS_AUTH_bigrams ==
    <<<<"l", "o", "g", "i", "n", " ", "e", "r", "r", "o", "r">>,
      <<"s", "i", "g", "n", " ", "i", "n">>,
      <<"r", "e", "s", "e", "t", " ", "p", "a", "s", "s", "w", "o", "r", "d">>,
      <<"w", "r", "o", "n", "g", " ", "p", "i", "n">>,
      <<"o", "t", "p", " ", "c", "o", "d", "e">>,
      <<"v", "e", "r", "i", "f", "i", "c", "a", "t", "i", "o", "n", " ", "c", "o", "d", "e">>>>

ACCESS_AUTH_unigrams ==
    <<<<"l", "o", "g", "i", "n">>,
      <<"s", "i", "g", "n", "i", "n">>,
      <<"p", "a", "s", "s", "w", "o", "r", "d">>,
      <<"p", "i", "n">>,
      <<"o", "t", "p">>,
      <<"v", "e", "r", "i", "f", "y">>,
      <<"v", "e", "r", "i", "f", "i", "c", "a", "t", "i", "o", "n">>,
      <<"b", "i", "o", "m", "e", "t", "r", "i", "c">>,
      <<"f", "i", "n", "g", "e", "r", "p", "r", "i", "n", "t">>>>

TXN_RELIABILITY_bigrams ==
    <<<<"s", "l", "o", "w", " ", "t", "r", "a", "n", "s", "f", "e", "r">>,
      <<"t", "r", "a", "n", "s", "f", "e", "r", " ", "f", "a", "i", "l", "e", "d">>,
      <<"p", "a", "y", "m", "e", "n", "t", " ", "f", "a", "i", "l", "e", "d">>,
      <<"t", "r", "a", "n", "s", "a", "c", "t", "i", "o", "n", " ", "f", "a", "i", "l", "e", "d">>,
      <<"p", "e", "n", "d", "i", "n", "g", " ", "t", "r", "a", "n", "s", "a", "c", "t", "i", "o", "n">>,
      <<"m", "o", "n", "e", "y", " ", "n", "o", "t", " ", "r", "e", "c", "e", "i", "v", "e", "d">>,
      <<"n", "e", "t", "w", "o", "r", "k", " ", "e", "r", "r", "o", "r">>>>

TXN_RELIABILITY_unigrams ==
    <<<<"t", "r", "a", "n", "s", "f", "e", "r">>,
      <<"t", "r", "a", "n", "s", "a", "c", "t", "i", "o", "n">>,
      <<"f", "a", "i", "l", "e", "d">>,
      <<"p", "e", "n", "d", "i", "n", "g">>,
      <<"t", "i", "m", "e", "o", "u", "t">>,
      <<"r", "e", "v", "e", "r", "s", "a", "l">>,
      <<"r", "e", "v", "e", "r", "s", "e", "d">>,
      <<"d", "e", "c", "l", "i", "n", "e", "d">>,
      <<"d", "e", "l", "a", "y">>,
      <<"s", "l", "o", "w">>>>

STABILITY_BUGS_bigrams ==
    <<<<"k", "e", "e", "p", "s", " ", "c", "r", "a", "s", "h", "i", "n", "g">>,
      <<"a", "p", "p", " ", "c", "r", "a", "s", "h", "e", "s">>,
      <<"a", "f", "t", "e", "r", " ", "u", "p", "d", "a", "t", "e">>,
      <<"n", "o", "t", " ", "w", "o", "r", "k", "i", "n", "g">>>>

STABILITY_BUGS_unigrams ==
    <<<<"c", "r", "a", "s", "h">>,
      <<"c", "r", "a", "s", "h", "e", "s">>,
      <<"b", "u", "g">>,
      <<"f", "r", "e", "e", "z", "e">>,
      <<"s", "t", "u", "c", "k">>,
      <<"h", "a", "n", "g">>,
      <<"l", "o", "a", "d", "i", "n", "g">>,
      <<"e", "r", "r", "o", "r">>,
      <<"u", "p", "d", "a", "t", "e">>>>

UX_UI_bigrams ==
    <<<<"u", "s", "e", "r", " ", "i", "n", "t", "e", "r", "f", "a", "c", "e">>,
      <<"e", "a", "s", "y", " ", "t", "o", " ", "u", "s", "e">>,
      <<"g", "o", "o", "d", " ", "u", "i">>,
      <<"b", "a", "d", " ", "u", "i">>>>

UX_UI_unigrams ==
    <<<<"u", "i">>,
      <<"u", "x">>,
      <<"i", "n", "t", "e", "r", "f", "a", "c", "e">>,
      <<"d", "e", "s", "i", "g", "n">>,
      <<"l", "a", "y", "o", "u", "t">>,
      <<"n", "a", "v", "i", "g", "a", "t", "i", "o", "n">>,
      <<"s", "i", "m", "p", "l", "e">>,
      <<"c", "o", "n", "f", "u", "s", "i", "n", "g">>,
      <<"l", "a", "n", "g", "u", "a", "g", "e">>>>

SUPPORT_SERVICE_bigrams ==
    <<<<"c", "u", "s", "t", "o", "m", "e", "r", " ", "s", "e", "r", "v", "i", "c", "e">>,
      <<"c", "a", "l", "l", " ", "c", "e", "n", "t", "e", "r">>,
      <<"n", "o", " ", "r", "e", "s", "p", "o", "n", "s", "e">>,
      <<"n", "o", "t", " ", "h", "e", "l", "p", "f", "u", "l">>>>

SUPPORT_SERVICE_unigrams ==
    <<<<"s", "u", "p", "p", "o", "r", "t">>,
      <<"s", "e", "r", "v", "i", "c", "e">>,
      <<"h", "e", "l", "p">>,
      <<"a", "g", "e", "n", "t">>,
      <<"b", "r", "a", "n", "c", "h">>,
      <<"c", "o", "m", "p", "l", "a", "i", "n", "t">>,
      <<"r", "e", "s", "p", "o", "n", "d">>,
      <<"r", "e", "s", "p", "o", "n", "s", "e">>>>

THEME_LEXICON ==
    <<[theme |-> "ACCESS_AUTH", bigrams |-> ACCESS_AUTH_bigrams, unigrams |-> ACCESS_AUTH_unigrams],
      [theme |-> "TXN_RELIABILITY", bigrams |-> TXN_RELIABILITY_bigrams, unigrams |-> TXN_RELIABILITY_unigrams],
      [theme |-> "STABILITY_BUGS", bigrams |-> STABILITY_BUGS_bigrams, unigrams |-> STABILITY_BUGS_unigrams],
      [theme |-> "UX_UI", bigrams |-> UX_UI_bigrams, unigrams |-> UX_UI_unigrams],
      [theme |-> "SUPPORT_SERVICE", bigrams |-> SUPPORT_SERVICE_bigrams, unigrams |-> SUPPORT_SERVICE_unigrams]>>

\* review texts: those of tests/test_themes.py, texts whose themes tie, a text
\* that holds a lexicon word inside a longer word, and the empty text
ThemeTexts ==
    {<<"L", "o", "g", "i", "n", " ", "e", "r", "r", "o", "r", " ", "a", "n", "d", " ", "O", "T", "P", " ", "n", "o", "t", " ", "w", "o", "r", "k", "i", "n", "g">>,
     <<"T", "r", "a", "n", "s", "f", "e", "r", " ", "f", "a", "i", "l", "e", "d", ",", " ", "p", "e", "n", "d", "i", "n", "g", " ", "t", "r", "a", "n", "s", "a", "c", "t", "i", "o", "n", " ", "f", "o", "r", " ", "h", "o", "u", "r", "s">>,
     <<"N", "i", "c", "e">>,
     <<"T", "r", "a", "n", "s", "f", "e", "r", " ", "f", "a", "i", "l", "e", "d", " ", "a", "n", "d", " ", "a", "p", "p", " ", "k", "e", "e", "p", "s", " ", "c", "r", "a", "s", "h", "i", "n", "g", " ", "a", "f", "t", "e", "r", " ", "u", "p", "d", "a", "t", "e">>,
     <<>>,
     <<"l", "o", "g", "i", "n", " ", "t", "r", "a", "n", "s", "f", "e", "r">>,
     <<"u", "i", " ", "h", "e", "l", "p">>,
     <<"c", "r", "a", "s", "h", " ", "u", "i">>,
     <<"l", "o", "g", "i", "n", " ", "t", "r", "a", "n", "s", "f", "e", "r", " ", "c", "r", "a", "s", "h", " ", "u", "i", " ", "h", "e", "l", "p">>,
     <<"s", "h", "o", "p", "p", "i", "n", "g">>,
     <<"s", "l", "o", "w", " ", "t", "r", "a", "n", "s", "f", "e", "r">>,
     <<"c", "u", "s", "t", "o", "m", "e", "r", " ", "s", "e", "r", "v", "i", "c", "e">>,
     <<"g", "o", "o", "d", " ", "u", "i", ",", " ", "l", "o", "g", "i", "n", " ", "e", "r", "r", "o", "r", ",", " ", "t", "r", "a", "n", "s", "f", "e", "r", " ", "f", "a", "i", "l", "e", "d">>,
     <<"p", "i", "n", " ", "s", "l", "o", "w", " ", "b", "u", "g">>}

MaxWeight == 2
MaxThreshold == 5
MaxThemes == 3

\* t in text
Contains(text, t) ==
    \E i \in 0..(Len(text) - Len(t)) : SubSeq(text, i + 1, i + Len(t)) = t

\* every occurrence of a term counted
_count_hits_Occurrences(text, terms) ==
    Cardinality({<<i, k>> \in (DOMAIN terms) \X (0..Len(text)) :
                    /\ k + Len(terms[i]) <= Len(text)
                    /\ SubSeq(text, k + 1, k + Len(terms[i])) = terms[i]})

_count_hits(text, terms) == Cardinality({i \in DOMAIN terms : Contains(text, terms[i])})

\* scores.items(): one (theme, score) per lexicon entry, in declaration order
score_themes(text, cfg) ==
    LET t == simple_clean_for_matching(StrVal(text))
    IN  [i \in DOMAIN THEME_LEXICON |->
            [theme |-> THEME_LEXICON[i].theme,
             score |-> cfg.bigram_weight * _count_hits(t, THEME_LEXICON[i].bigrams)
                         + cfg.unigram_weight * _count_hits(t, THEME_LEXICON[i].unigrams)]]

\* a sort that puts an item before the earlier items of equal score
InsertByScore_TiesFirst(ranked, x) ==
    LET k == Cardinality({i \in DOMAIN ranked : ranked[i].score > x.score})
    IN  SubSeq(ranked, 1, k) \o <<x>> \o SubSeq(ranked, k + 1, Len(ranked))

\* sorted(..., reverse=True) is stable: an item goes after the earlier items
\* of greater or equal score
InsertByScore(ranked, x) ==
    LET k == Cardinality({i \in DOMAIN ranked : ranked[i].score >= x.score})
    IN  SubSeq(ranked, 1, k) \o <<x>> \o SubSeq(ranked, k + 1, Len(ranked))

\* sorted(scores.items(), key=lambda x: x[1], reverse=True)
RECURSIVE SortedByScoreDesc(_)
SortedByScoreDesc(items) ==
    IF items = <<>> THEN <<>>
    ELSE InsertByScore(SortedByScoreDesc(SubSeq(items, 1, Len(items) - 1)),
                       items[Len(items)])

\* the loop without "if len(picked) >= cfg.max_themes: break"
RECURSIVE PickThemes_NoCap(_, _, _)
PickThemes_NoCap(picked, rest, cfg) ==
    IF rest = <<>> THEN picked
    ELSE IF Head(rest).score >= cfg.threshold
         THEN PickThemes_NoCap(Append(picked, <<Head(rest).theme>>), Tail(rest), cfg)
         ELSE PickThemes_NoCap(picked, Tail(rest), cfg)

\* the loop without "if sc >= cfg.threshold"
RECURSIVE PickThemes_NoThreshold(_, _, _)
PickThemes_NoThreshold(picked, rest, cfg) ==
    IF rest = <<>> THEN picked
    ELSE IF Len(picked) >= cfg.max_themes THEN picked
    ELSE PickThemes_NoThreshold(Append(picked, <<Head(rest).theme>>), Tail(rest), cfg)

\* for theme, sc in ranked[1:]: ...
RECURSIVE PickThemes(_, _, _)
PickThemes(picked, rest, cfg) ==
    IF rest = <<>> THEN picked
    ELSE IF Len(picked) >= cfg.max_themes THEN picked
    ELSE IF Head(rest).score >= cfg.threshold
         THEN PickThemes(Append(picked, <<Head(rest).theme>>), Tail(rest), cfg)
         ELSE PickThemes(picked, Tail(rest), cfg)

\* "|".join(picked); a theme name is a string of one symbol
RECURSIVE JoinPipe(_)
JoinPipe(picked) ==
    IF picked = <<>> THEN <<>>
    ELSE IF Len(picked) = 1 THEN picked[1]
         ELSE picked[1] \o <<"|">> \o JoinPipe(Tail(picked))

\* "OTHER" also for a top score equal to the threshold
assign_themes_ThresholdInclusive(text, cfg) ==
    LET ranked == SortedByScoreDesc(score_themes(text, cfg))
        primary == <<ranked[1].theme>>
    IN  IF ranked[1].score <= cfg.threshold THEN <<<<"OTHER">>, <<"OTHER">>>>
        ELSE IF ~cfg.allow_multilabel THEN <<primary, primary>>
        ELSE <<primary, JoinPipe(PickThemes(<<primary>>, Tail(ranked), cfg))>>

\* allow_multilabel ignored
assign_themes_MultilabelAlways(text, cfg) ==
    LET ranked == SortedByScoreDesc(score_themes(text, cfg))
        primary == <<ranked[1].theme>>
    IN  IF ranked[1].score < cfg.threshold THEN <<<<"OTHER">>, <<"OTHER">>>>
        ELSE <<primary, JoinPipe(PickThemes(<<primary>>, Tail(ranked), cfg))>>

\* returns (primary, themes), both strings
assign_themes(text, cfg) ==
    LET ranked == SortedByScoreDesc(score_themes(text, cfg))
        primary == <<ranked[1].theme>>
    IN  IF ranked[1].score < cfg.threshold THEN <<<<"OTHER">>, <<"OTHER">>>>
        ELSE IF ~cfg.allow_multilabel THEN <<primary, primary>>
        ELSE <<primary, JoinPipe(PickThemes(<<primary>>, Tail(ranked), cfg))>>

ThemeConfigs ==
    [unigram_weight : 0..MaxWeight, bigram_weight : 0..MaxWeight,
     threshold : 0..MaxThreshold, allow_multilabel : BOOLEAN,
     max_themes : 0..MaxThemes]

ThemesInit ==
    /\ StoreInit
    /\ IdIdle
    /\ OtherIdle
    /\ callFn = "assign_themes"
    /\ callArgs \in [text : ThemeTexts, cfg : ThemeConfigs]
    /\ callOut = NotCalled

CallAssignThemes ==
    /\ callFn = "assign_themes"
    /\ callOut = NotCalled
    /\ callOut' = Returned(assign_themes(callArgs.text, callArgs.cfg))
    /\ UNCHANGED <<callFn, callArgs>>

ThemesNext == CallAssignThemes /\ UNCHANGED <<storeVars, idVars, histVars, cacheVars>>

SpecThemes == ThemesInit /\ [][ThemesNext]_vars


(***************************************************************************)
(* Claims about assign_themes (SpecThemes)                                 *)
(***************************************************************************)
\* the scores of the text under test, by position in the lexicon
CallScores == score_themes(callArgs.text, callArgs.cfg)
TopOf(sc) == MaxOf({sc[i].score : i \in DOMAIN sc})
TopScore == TopOf(CallScores)
CallPrimary == callOut.value[1]
\* themes.split("|")
CallThemeList == SplitOn(callOut.value[2], "|")

\* theme i stands before theme j in the ranking: greater score, or equal
\* score and declared earlier
RanksBefore(sc, i, j) ==
    \/ sc[i].score > sc[j].score
    \/ sc[i].score = sc[j].score /\ i < j

\* position of lexicon theme i in the ranking, 1 for the top
RankOf(sc, i) == 1 + Cardinality({j \in DOMAIN sc : RanksBefore(sc, j, i)})

\* the name of the theme at position k of the ranking
RankedName(sc, k) == <<sc[CHOOSE i \in DOMAIN sc : RankOf(sc, i) = k].theme>>

NumAtOrAboveOf(sc) ==
    Cardinality({i \in DOMAIN sc : sc[i].score >= callArgs.cfg.threshold})
NumAtOrAbove == NumAtOrAboveOf(CallScores)

Min2(a, b) == IF a <= b THEN a ELSE b
Max2(a, b) == IF a >= b THEN a ELSE b

\* C16: when the highest score is below threshold the result is primary OTHER
\* with the list [OTHER]; otherwise the primary is a lexicon theme holding
\* the highest score, and is not OTHER.
C16_ThemeFallback ==
    LET sc == CallScores IN
    callOut.returned =>
        IF TopOf(sc) < callArgs.cfg.threshold
        THEN CallPrimary = <<"OTHER">> /\ CallThemeList = <<<<"OTHER">>>>
        ELSE /\ CallPrimary # <<"OTHER">>
             /\ \E i \in DOMAIN sc :
                   /\ CallPrimary = <<sc[i].theme>>
                   /\ sc[i].score = TopOf(sc)

\* a top score equal to a positive threshold gave a lexicon theme
C16_Witness ==
    LET sc == CallScores IN
    /\ callOut.returned
    /\ callArgs.cfg.threshold > 0
    /\ TopOf(sc) = callArgs.cfg.threshold
    /\ CallPrimary # <<"OTHER">>

\* C17 as stated: the list never has more than max_themes themes.
C17_ThemeCap ==
    callOut.returned => Len(CallThemeList) <= callArgs.cfg.max_themes

\* C17 amended: the list never has more than max_themes themes when
\* max_themes >= 1, and has exactly one theme when max_themes < 1.
C17_ThemeCapAtLeastOne ==
    callOut.returned =>
        /\ Len(CallThemeList) <= Max2(1, callArgs.cfg.max_themes)
        /\ callArgs.cfg.max_themes < 1 => Len(CallThemeList) = 1

\* more themes reached the threshold than the cap allows
C17_Witness ==
    LET sc == CallScores IN
    /\ callOut.returned
    /\ TopOf(sc) > 0
    /\ callArgs.cfg.allow_multilabel
    /\ callArgs.cfg.max_themes >= 2
    /\ NumAtOrAboveOf(sc) > callArgs.cfg.max_themes
    /\ Len(CallThemeList) = callArgs.cfg.max_themes

\* C18: the list starts with the primary theme and holds no theme twice;
\* with allow_multilabel off it is exactly [primary].
C18_ThemeListShape ==
    callOut.returned =>
        /\ Len(CallThemeList) >= 1
        /\ CallThemeList[1] = CallPrimary
        /\ \A i, j \in DOMAIN CallThemeList : CallThemeList[i] = CallThemeList[j] => i = j
        /\ ~callArgs.cfg.allow_multilabel => CallThemeList = <<CallPrimary>>

\* multilabel off while a second theme reached the threshold
C18_Witness ==
    LET sc == CallScores IN
    /\ callOut.returned
    /\ TopOf(sc) > 0
    /\ ~callArgs.cfg.allow_multilabel
    /\ callArgs.cfg.max_themes >= 2
    /\ NumAtOrAboveOf(sc) >= 2
    /\ CallThemeList = <<CallPrimary>>

\* C19: with the top score at or above threshold, the primary is the
\* earliest-declared theme among those holding the top score, and the listed
\* themes stand in ranking order: score descending, declaration order among
\* equal scores.
C19_TieBreak ==
    LET sc == CallScores IN
    (callOut.returned /\ TopOf(sc) >= callArgs.cfg.threshold) =>
        /\ \E i \in DOMAIN sc :
              /\ CallPrimary = <<sc[i].theme>>
              /\ sc[i].score = TopOf(sc)
              /\ \A j \in DOMAIN sc : sc[j].score = TopOf(sc) => i <= j
        /\ \A k \in 1..(Len(CallThemeList) - 1) :
              \E i, j \in DOMAIN sc :
                  /\ CallThemeList[k] = <<sc[i].theme>>
                  /\ CallThemeList[k + 1] = <<sc[j].theme>>
                  /\ RanksBefore(sc, i, j)

\* themes other than the first declared tie for the top score
C19_Witness ==
    LET sc == CallScores IN
    /\ callOut.returned
    /\ TopOf(sc) >= callArgs.cfg.threshold
    /\ TopOf(sc) > 0
    /\ sc[1].score < TopOf(sc)
    /\ Cardinality({i \in DOMAIN sc : sc[i].score = TopOf(sc)}) >= 2
    /\ Len(CallThemeList) >= 2

\* C20 as stated: with multilabel on and the top score at or above
\* threshold, the list is the first min(max_themes, number of themes at or
\* above threshold) themes of the ranking.
C20_GreedySelection ==
    LET sc == CallScores IN
    (callOut.returned /\ callArgs.cfg.allow_multilabel
        /\ TopOf(sc) >= callArgs.cfg.threshold) =>
        LET n == Min2(callArgs.cfg.max_themes, NumAtOrAboveOf(sc))
        IN  CallThemeList = [k \in 1..n |-> RankedName(sc, k)]

\* C20 amended: the list is the first max(1, min(max_themes, number of themes
\* at or above threshold)) themes of the ranking; so every listed theme is at
\* or above threshold and none at or above threshold is left out while the
\* list is shorter than max_themes.
C20_GreedySelectionAtLeastOne ==
    LET sc == CallScores IN
    (callOut.returned /\ callArgs.cfg.allow_multilabel
        /\ TopOf(sc) >= callArgs.cfg.threshold) =>
        LET n == Max2(1, Min2(callArgs.cfg.max_themes, NumAtOrAboveOf(sc)))
        IN  /\ CallThemeList = [k \in 1..n |-> RankedName(sc, k)]
            /\ \A k \in DOMAIN CallThemeList :
                  \E i \in DOMAIN sc :
                      /\ CallThemeList[k] = <<sc[i].theme>>
                      /\ sc[i].score >= callArgs.cfg.threshold
            /\ Len(CallThemeList) < callArgs.cfg.max_themes =>
                  \A i \in DOMAIN sc :
                      sc[i].score >= callArgs.cfg.threshold =>
                          \E k \in DOMAIN CallThemeList :
                              CallThemeList[k] = <<sc[i].theme>>

\* the ranking ran out of themes at or above threshold before the cap
C20_Witness ==
    LET sc == CallScores IN
    /\ callOut.returned
    /\ callArgs.cfg.allow_multilabel
    /\ TopOf(sc) >= callArgs.cfg.threshold
    /\ NumAtOrAboveOf(sc) >= 2
    /\ NumAtOrAboveOf(sc) < callArgs.cfg.max_themes
    /\ NumAtOrAboveOf(sc) < Len(sc)
    /\ Len(CallThemeList) = NumAtOrAboveOf(sc)


(***************************************************************************)
(* Specification SpecScore: score_themes applied to one text               *)
(***************************************************************************)
\* texts in which a lexicon word occurs twice, and in which punctuation
\* stands between the words of a lexicon phrase
ScoreTexts ==
    ThemeTexts \cup
        {<<"l", "o", "g", "i", "n", " ", "l", "o", "g", "i", "n">>,
         <<"t", "r", "a", "n", "s", "f", "e", "r", ",", "f", "a", "i", "l", "e", "d">>}

ScoreInit ==
    /\ StoreInit
    /\ IdIdle
    /\ OtherIdle
    /\ callFn = "score_themes"
    /\ callArgs \in [text : ScoreTexts, cfg : ThemeConfigs]
    /\ callOut = NotCalled

CallScoreThemes ==
    /\ callFn = "score_themes"
    /\ callOut = NotCalled
    /\ callOut' = Returned(score_themes(callArgs.text, callArgs.cfg))
    /\ UNCHANGED <<callFn, callArgs>>

ScoreNext == CallScoreThemes /\ UNCHANGED <<storeVars, idVars, histVars, cacheVars>>

SpecScore == ScoreInit /\ [][ScoreNext]_vars

\* the start positions at which term occurs in text
Occurrences(term, text) ==
    {k \in 1..Len(text) :
        /\ k + Len(term) - 1 <= Len(text)
        /\ \A m \in 1..Len(term) : text[k + m - 1] = term[m]}

NumOccurring(terms, text) ==
    Cardinality({k \in DOMAIN terms : Occurrences(terms[k], text) # {}})

\* C21: for every theme the score is bigram_weight times the number of the
\* theme's phrases that occur in the cleaned text plus unigram_weight times
\* the number of its words that occur in it; a term is counted once however
\* often it occurs, and also when it occurs inside a longer word.
C21_ThemeScore ==
    callOut.returned =>
        LET t == simple_clean_for_matching(StrVal(callArgs.text))
        IN  /\ Len(callOut.value) = Len(THEME_LEXICON)
            /\ \A i \in DOMAIN THEME_LEXICON :
                  /\ callOut.value[i].theme = THEME_LEXICON[i].theme
                  /\ callOut.value[i].score
                        = callArgs.cfg.bigram_weight
                              * NumOccurring(THEME_LEXICON[i].bigrams, t)
                          + callArgs.cfg.unigram_weight
                              * NumOccurring(THEME_LEXICON[i].unigrams, t)

\* a lexicon word occurs twice in the text and its theme has a positive score
C21_Witness ==
    /\ callOut.returned
    /\ callArgs.cfg.unigram_weight > 0
    /\ LET t == simple_clean_for_matching(StrVal(callArgs.text))
       IN  \E i \in DOMAIN THEME_LEXICON :
              /\ \E k \in DOMAIN THEME_LEXICON[i].unigrams :
                    Cardinality(Occurrences(THEME_LEXICON[i].unigrams[k], t)) >= 2
              /\ callOut.value[i].score > 0


(***************************************************************************)
(* insights/task4.py.  A float is modelled as the exact fraction num/den;  *)
(* den = 0 stands for NaN.                                                 *)
(***************************************************************************)
MaxReviews == 3
MaxMinN == 2

Frac(n, d) == [num |-> n, den |-> d]
FNaN == Frac(0, 0)
IsNaN(x) == x.den = 0
FMul(x, y) == IF IsNaN(x) \/ IsNaN(y) THEN FNaN ELSE Frac(x.num * y.num, x.den * y.den)
\* k - x
FRSub(k, x) == IF IsNaN(x) THEN FNaN ELSE Frac(k * x.den - x.num, x.den)
\* n / d of two integer columns: 0/0 is NaN
FDiv(n, d) == IF d = 0 THEN FNaN ELSE Frac(n, d)
FEq(x, y) == ~IsNaN(x) /\ ~IsNaN(y) /\ x.num * y.den = y.num * x.den
FLess(x, y) == ~IsNaN(x) /\ ~IsNaN(y) /\ x.num * y.den < y.num * x.den

RECURSIVE SumSeq(_)
SumSeq(q) == IF q = <<>> THEN 0 ELSE Head(q) + SumSeq(Tail(q))

UNKNOWN == <<"U", "N", "K", "N", "O", "W", "N">>

\* df[col].fillna("UNKNOWN") for theme_primary and sentiment_label
FillUnknown(reviews) ==
    [i \in DOMAIN reviews |->
        [reviews[i] EXCEPT
            !.theme_primary = IF @ = NoneVal THEN StrVal(UNKNOWN) ELSE @,
            !.sentiment_label = IF @ = NoneVal THEN StrVal(UNKNOWN) ELSE @]]

\* the rows of one group of df.groupby([bank_col, theme_col])
GroupRows(df, bank, theme) ==
    SelectSeq(df, LAMBDA r : r.bank_name = bank /\ r.theme_primary = theme)

\* g.agg(n, avg_rating, pct_positive, pct_negative) of one group
AggGroup(df, bank, theme) ==
    LET g == GroupRows(df, bank, theme)
        n == Len(g)
    IN  [bank_name |-> bank, theme_primary |-> theme, n |-> n,
         avg_rating |-> FDiv(SumSeq([i \in DOMAIN g |-> g[i].rating]), n),
         pct_positive |->
             FDiv(Len(SelectSeq(g, LAMBDA r : r.sentiment_label = StrVal(<<"POSITIVE">>))), n),
         pct_negative |->
             FDiv(Len(SelectSeq(g, LAMBDA r : r.sentiment_label = StrVal(<<"NEGATIVE">>))), n)]

\* a total over the whole frame instead of over the bank
BankTotal_AllBanks(df, bank) == Len(df)

\* df.groupby(bank_col).size()
BankTotal(df, bank) == Len(SelectSeq(df, LAMBDA r : r.bank_name = bank))

\* out[out["n"] > min_n]
FilterMinN_Strict(rows, min_n) == {r \in rows : r.n > min_n}

\* out[out["n"] >= min_n]
FilterMinN(rows, min_n) == {r \in rows : r.n >= min_n}

\* driver_score and pain_score of one row
WithScores(r) ==
    [bank_name |-> r.bank_name, theme_primary |-> r.theme_primary, n |-> r.n,
     avg_rating |-> r.avg_rating, pct_positive |-> r.pct_positive,
     pct_negative |-> r.pct_negative, bank_n |-> r.bank_n,
     share_within_bank |-> r.share_within_bank,
     driver_score |-> FMul(FMul(r.pct_positive, r.avg_rating), r.share_within_bank),
     pain_score |-> FMul(FMul(r.pct_negative, FRSub(6, r.avg_rating)), r.share_within_bank)]

\* the row that sort_values([bank_col, "n"], ascending=[True, False]) puts
\* first; rows equal in both keep the order of the group keys
SummaryFirst(rows) ==
    CHOOSE r \in rows : \A q \in rows \ {r} :
        \/ StrLess(r.bank_name.s, q.bank_name.s)
        \/ r.bank_name = q.bank_name /\ r.n > q.n
        \/ r.bank_name = q.bank_name /\ r.n = q.n
              /\ StrLess(r.theme_primary.s, q.theme_primary.s)

RECURSIVE SortSummary(_)
SortSummary(rows) ==
    IF rows = {} THEN <<>>
    ELSE LET r == SummaryFirst(rows) IN <<r>> \o SortSummary(rows \ {r})

theme_summary_by_bank(reviews, min_n) ==
    LET df == FillUnknown(reviews)
        keys == {<<df[i].bank_name, df[i].theme_primary>> : i \in DOMAIN df}
        out == {AggGroup(df, k[1], k[2]) : k \in keys}
        merged == {[bank_name |-> r.bank_name, theme_primary |-> r.theme_primary,
                    n |-> r.n, avg_rating |-> r.avg_rating,
                    pct_positive |-> r.pct_positive, pct_negative |-> r.pct_negative,
                    bank_n |-> BankTotal(df, r.bank_name),
                    share_within_bank |-> FDiv(r.n, BankTotal(df, r.bank_name))]
                   : r \in out}
    IN  SortSummary({WithScores(r) : r \in FilterMinN(merged, min_n)})

\* the reviews load_reviews_from_db hands over: bank a or b, a theme or none,
\* a sentiment label, a rating
ReviewRow(bank, theme, label, rating) ==
    [bank_name |-> bank, theme_primary |-> theme, sentiment_label |-> label,
     rating |-> rating]

ReviewUniverse ==
    {ReviewRow(StrVal(<<b>>), t, l, r) :
        b \in {"a", "b"},
        t \in {StrVal(<<"U">>), NoneVal},
        l \in {StrVal(<<"POSITIVE">>), StrVal(<<"NEGATIVE">>), StrVal(<<"NEUTRAL">>)},
        r \in {1, 5}}

\* a fixed enumeration of the universe; a frame lists its rows in this order
\* (the summary does not depend on the order of the rows but for its own sort)
RECURSIVE EnumerateSet(_)
EnumerateSet(S) ==
    IF S = {} THEN <<>> ELSE LET x == CHOOSE y \in S : TRUE IN <<x>> \o EnumerateSet(S \ {x})

ReviewFrames ==
    LET u == EnumerateSet(ReviewUniverse)
    IN  UNION {{[i \in 1..n |-> u[idx[i]]] :
                   idx \in {f \in [1..n -> DOMAIN u] : \A i \in 1..(n - 1) : f[i] <= f[i + 1]}}
               : n \in 0..MaxReviews}

SummaryInit ==
    /\ StoreInit
    /\ IdIdle
    /\ OtherIdle
    /\ callFn = "theme_summary_by_bank"
    /\ callArgs \in [reviews : ReviewFrames, min_n : 0..MaxMinN]
    /\ callOut = NotCalled

CallThemeSummaryByBank ==
    /\ callFn = "theme_summary_by_bank"
    /\ callOut = NotCalled
    /\ callOut' = Returned(theme_summary_by_bank(callArgs.reviews, callArgs.min_n))
    /\ UNCHANGED <<callFn, callArgs>>

SummaryNext == CallThemeSummaryByBank /\ UNCHANGED <<storeVars, idVars, histVars, cacheVars>>

SpecSummary == SummaryInit /\ [][SummaryNext]_vars


\* what the claims about the summary read off the call
SummaryCalled == callFn = "theme_summary_by_bank" /\ callOut.returned
SummaryRows == {callOut.value[i] : i \in DOMAIN callOut.value}
BankNames == {StrVal(<<"a">>), StrVal(<<"b">>)}
ThemeNames == {StrVal(<<"U">>), StrVal(UNKNOWN)}
\* the reviews of the input that belong to a bank, and to a (bank, theme)
\* group, a review without a theme counting under UNKNOWN
ReviewsOfBank(reviews, bank) == {i \in DOMAIN reviews : reviews[i].bank_name = bank}
ReviewsOfGroup(reviews, bank, theme) ==
    {i \in ReviewsOfBank(reviews, bank) :
        \/ reviews[i].theme_primary = theme
        \/ reviews[i].theme_primary = NoneVal /\ theme = StrVal(UNKNOWN)}

\* C22: the summary has a row for a (bank, theme) exactly when the input has
\* reviews of that group and at least min_n of them, never two rows for one
\* group, and no row at all for an empty input.
C22_MinSampleFilter ==
    SummaryCalled =>
        LET rv == callArgs.reviews
            rows == SummaryRows
        IN  /\ \A b \in BankNames, t \in ThemeNames :
                LET size == Cardinality(ReviewsOfGroup(rv, b, t))
                    here == {r \in rows : r.bank_name = b /\ r.theme_primary = t}
                IN  /\ (here # {}) <=> (size >= 1 /\ size >= callArgs.min_n)
                    /\ Cardinality(here) <= 1
                    /\ \A r \in here : r.n = size /\ ~IsNaN(r.driver_score)
                                       /\ ~IsNaN(r.pain_score)
            /\ \A r \in rows : r.bank_name \in BankNames /\ r.theme_primary \in ThemeNames
            /\ Len(callOut.value) = Cardinality(rows)
            /\ (rv = <<>>) => (callOut.value = <<>>)

\* a bank with one group of exactly min_n reviews, kept, and a smaller group,
\* dropped
C22_Witness ==
    /\ SummaryCalled
    /\ callArgs.min_n = 2
    /\ \E b \in BankNames :
          /\ Cardinality(ReviewsOfGroup(callArgs.reviews, b, StrVal(<<"U">>))) = 2
          /\ Cardinality(ReviewsOfGroup(callArgs.reviews, b, StrVal(UNKNOWN))) = 1
          /\ \E r \in SummaryRows : r.bank_name = b /\ r.theme_primary = StrVal(<<"U">>)
          /\ ~\E r \in SummaryRows : r.bank_name = b /\ r.theme_primary = StrVal(UNKNOWN)

\* C23: share_within_bank of a row is its n over the number of all the
\* bank's input reviews, those of dropped groups included; it lies in (0, 1]
\* and the shares of one bank's rows sum to at most 1.
C23_ShareWithinBank ==
    SummaryCalled =>
        LET rv == callArgs.reviews
            rows == SummaryRows
        IN  /\ \A r \in rows :
                LET total == Cardinality(ReviewsOfBank(rv, r.bank_name))
                IN  /\ FEq(r.share_within_bank, Frac(r.n, total))
                    /\ FLess(Frac(0, 1), r.share_within_bank)
                    /\ ~FLess(Frac(1, 1), r.share_within_bank)
            /\ \A b \in BankNames :
                LET total == Cardinality(ReviewsOfBank(rv, b))
                    \* the shares of one bank have the denominator total
                    sumN == SumSeq([i \in DOMAIN callOut.value |->
                                IF callOut.value[i].bank_name = b
                                THEN callOut.value[i].n ELSE 0])
                IN  sumN <= total

\* a kept group beside a dropped group of the same bank and a second bank:
\* the share is 2/3
C23_Witness ==
    /\ SummaryCalled
    /\ \E r \in SummaryRows :
          /\ r.n = 2
          /\ Cardinality(ReviewsOfBank(callArgs.reviews, r.bank_name)) = 3
          /\ FEq(r.share_within_bank, Frac(2, 3))
          /\ Cardinality({q \in SummaryRows : q.bank_name = r.bank_name}) = 1


(***************************************************************************)
(* dashboard_gradio/impact.py.  theme_df has one row per (bank, theme,     *)
(* sentiment label) with a count and an average rating; pd.NA is the       *)
(* fraction with den = 0.                                                  *)
(***************************************************************************)
MaxTableRows == 2
MaxCount == 2

\* n / d.replace(0, 0): a zero denominator giving zero
NADiv_Zero(n, d) == IF d = 0 THEN Frac(0, 1) ELSE Frac(n, d)

\* n / d.replace(0, pd.NA)
NADiv(n, d) == IF d = 0 THEN FNaN ELSE Frac(n, d)

\* lines 18-21: the labels stripped and lowercased, the themes stripped
NormalizeLabels(theme_df) ==
    [i \in DOMAIN theme_df |->
        [theme_df[i] EXCEPT !.sentiment_label = StrVal(Lower(Strip(@.s))),
                            !.theme_primary = StrVal(Strip(@.s))]]

\* df[df["sentiment_label"] == label] ... agg(sum of n_reviews), 0 if no row
CountLabelled(df, bank, theme, label) ==
    SumSeq([i \in DOMAIN df |->
        IF df[i].bank_name = bank /\ df[i].theme_primary = theme
           /\ df[i].sentiment_label = StrVal(<<label>>)
        THEN df[i].n_reviews ELSE 0])

\* the row sort_values(["bank_name", "pain_score"], ascending=[True, False])
\* puts first: pd.NA after every number, equal rows in the order of the keys
PriorityFirst(rows) ==
    CHOOSE r \in rows : \A q \in rows \ {r} :
        \/ StrLess(r.bank_name.s, q.bank_name.s)
        \/ /\ r.bank_name = q.bank_name
           /\ \/ FLess(q.pain_score, r.pain_score)
              \/ ~IsNaN(r.pain_score) /\ IsNaN(q.pain_score)
              \/ /\ FEq(r.pain_score, q.pain_score) \/ (IsNaN(r.pain_score) /\ IsNaN(q.pain_score))
                 /\ StrLess(r.theme_primary.s, q.theme_primary.s)

RECURSIVE SortPriority(_)
SortPriority(rows) ==
    IF rows = {} THEN <<>>
    ELSE LET r == PriorityFirst(rows) IN <<r>> \o SortPriority(rows \ {r})

\* a pd.DataFrame as a Python value
FrameVal(rows) == [t |-> "frame", rows |-> rows]

compute_priority_table(theme_df) ==
    IF theme_df.t = "none" THEN <<>>
    ELSE IF theme_df.rows = <<>> THEN <<>>
    ELSE
    LET df18 == NormalizeLabels(theme_df.rows)
        \* line 23 takes a fresh copy of theme_df: df18 is dropped
        df == theme_df.rows
        keys == {<<df[i].bank_name, df[i].theme_primary>> : i \in DOMAIN df}
        bt_n(bank, theme) ==
            SumSeq([i \in DOMAIN df |->
                IF df[i].bank_name = bank /\ df[i].theme_primary = theme
                THEN df[i].n_reviews ELSE 0])
        bank_n(bank) ==
            SumSeq([i \in DOMAIN df |->
                IF df[i].bank_name = bank THEN df[i].n_reviews ELSE 0])
        rating_x_n(bank, theme) ==
            SumSeq([i \in DOMAIN df |->
                IF df[i].bank_name = bank /\ df[i].theme_primary = theme
                THEN df[i].avg_rating * df[i].n_reviews ELSE 0])
        Row(bank, theme) ==
            LET n == bt_n(bank, theme)
                volume_share == NADiv(n, bank_n(bank))
                avg_rating == NADiv(rating_x_n(bank, theme), n)
                pos_share == NADiv(CountLabelled(df, bank, theme, "POSITIVE"), n)
                neg_share == NADiv(CountLabelled(df, bank, theme, "NEGATIVE"), n)
            IN  [bank_name |-> bank, theme_primary |-> theme, bt_n |-> n,
                 volume_share |-> volume_share, avg_rating |-> avg_rating,
                 pos_share |-> pos_share, neg_share |-> neg_share,
                 driver_score |-> FMul(FMul(pos_share, avg_rating), volume_share),
                 pain_score |-> FMul(FMul(neg_share, FRSub(6, avg_rating)), volume_share)]
    IN  SortPriority({Row(k[1], k[2]) : k \in keys})

\* the frames theme_breakdown can hand over have lowercase labels and counts
\* of at least 1; the function is also called on frames with other labels
\* and with zero counts
TableUniverse ==
    {[bank_name |-> StrVal(<<b>>), theme_primary |-> StrVal(<<t>>),
      sentiment_label |-> StrVal(<<l>>), n_reviews |-> n, avg_rating |-> r] :
        b \in {"a", "b"}, t \in {"O", "U"},
        l \in {"positive", "negative", "POSITIVE"},
        n \in 0..MaxCount, r \in {1, 5}}

TableFrames ==
    LET u == EnumerateSet(TableUniverse)
    IN  UNION {{[i \in 1..n |-> u[idx[i]]] :
                   idx \in {f \in [1..n -> DOMAIN u] : \A i \in 1..(n - 1) : f[i] < f[i + 1]}}
               : n \in 0..MaxTableRows}

PriorityInit ==
    /\ StoreInit
    /\ IdIdle
    /\ OtherIdle
    /\ callFn = "compute_priority_table"
    /\ callArgs \in [theme_df : {FrameVal(f) : f \in TableFrames} \cup {NoneVal}]
    /\ callOut = NotCalled

CallComputePriorityTable ==
    /\ callFn = "compute_priority_table"
    /\ callOut = NotCalled
    /\ callOut' = Returned(compute_priority_table(callArgs.theme_df))
    /\ UNCHANGED <<callFn, callArgs>>

PriorityNext == CallComputePriorityTable /\ UNCHANGED <<storeVars, idVars, histVars, cacheVars>>

SpecPriority == PriorityInit /\ [][PriorityNext]_vars


\* what the claims about the rollup read off the call
PriorityCalled == callFn = "compute_priority_table" /\ callOut.returned
PriorityRows == {callOut.value[i] : i \in DOMAIN callOut.value}
\* a frame as theme_breakdown produces it: lowercase labels, one row per
\* (bank, theme, label), every count at least 1
FromQueryLayer(f) ==
    /\ \A i \in DOMAIN f : f[i].n_reviews >= 1 /\ f[i].sentiment_label.s = Lower(f[i].sentiment_label.s)
    /\ \A i, j \in DOMAIN f :
          (/\ f[i].bank_name = f[j].bank_name /\ f[i].theme_primary = f[j].theme_primary
           /\ f[i].sentiment_label = f[j].sentiment_label) => i = j
\* the reviews a frame counts: all of a bank, all of a group, those of a
\* group under a label read without regard to case, and the sum of ratings
CountOfBank(f, bank) ==
    SumSeq([i \in DOMAIN f |-> IF f[i].bank_name = bank THEN f[i].n_reviews ELSE 0])
CountOfGroup(f, bank, theme, labels) ==
    SumSeq([i \in DOMAIN f |->
        IF f[i].bank_name = bank /\ f[i].theme_primary = theme
           /\ Lower(f[i].sentiment_label.s) \in labels
        THEN f[i].n_reviews ELSE 0])
RatingsOfGroup(f, bank, theme) ==
    SumSeq([i \in DOMAIN f |->
        IF f[i].bank_name = bank /\ f[i].theme_primary = theme
        THEN f[i].avg_rating * f[i].n_reviews ELSE 0])
AnyLabel == {<<"positive">>, <<"negative">>}
UpperLabels(f) ==
    [i \in DOMAIN f |->
        [f[i] EXCEPT !.sentiment_label =
            IF @ = StrVal(<<"positive">>) THEN StrVal(<<"POSITIVE">>)
            ELSE IF @ = StrVal(<<"negative">>) THEN StrVal(<<"NEGATIVE">>) ELSE @]]

\* C24: in the row-level summary and in the rollup, driver_score is the
\* positive fraction times the average rating times the volume share, and
\* pain_score the negative fraction times (6 - average rating) times the
\* volume share, the fractions taken over the group's reviews and the
\* average weighted by review count; both scores are non-negative.
C24_ScoreFormulas ==
    /\ SummaryCalled =>
          \A r \in SummaryRows :
              LET rv == callArgs.reviews
                  g == ReviewsOfGroup(rv, r.bank_name, r.theme_primary)
                  n == Cardinality(g)
                  total == Cardinality(ReviewsOfBank(rv, r.bank_name))
                  pos == Cardinality({i \in g : rv[i].sentiment_label = StrVal(<<"POSITIVE">>)})
                  neg == Cardinality({i \in g : rv[i].sentiment_label = StrVal(<<"NEGATIVE">>)})
                  sum == SumSeq([i \in DOMAIN rv |-> IF i \in g THEN rv[i].rating ELSE 0])
              IN  /\ FEq(r.driver_score, Frac(pos * sum * n, n * n * total))
                  /\ FEq(r.pain_score, Frac(neg * (6 * n - sum) * n, n * n * total))
                  /\ ~FLess(r.driver_score, Frac(0, 1))
                  /\ ~FLess(r.pain_score, Frac(0, 1))
    /\ (PriorityCalled /\ callArgs.theme_df.t = "frame"
            /\ FromQueryLayer(callArgs.theme_df.rows)) =>
          \A r \in PriorityRows :
              LET f == callArgs.theme_df.rows
                  n == CountOfGroup(f, r.bank_name, r.theme_primary, AnyLabel)
                  total == CountOfBank(f, r.bank_name)
                  pos == CountOfGroup(f, r.bank_name, r.theme_primary, {<<"positive">>})
                  neg == CountOfGroup(f, r.bank_name, r.theme_primary, {<<"negative">>})
                  sum == RatingsOfGroup(f, r.bank_name, r.theme_primary)
              IN  /\ FEq(r.driver_score, Frac(pos * sum * n, n * n * total))
                  /\ FEq(r.pain_score, Frac(neg * (6 * n - sum) * n, n * n * total))
                  /\ ~FLess(r.driver_score, Frac(0, 1))
                  /\ ~FLess(r.pain_score, Frac(0, 1))

\* C26 as stated: no row for an empty or absent input; a row with a zero bank
\* total or a zero theme total has volume_share, pos_share, neg_share and
\* both scores missing.
C26_ZeroDenominators ==
    PriorityCalled =>
        /\ (callArgs.theme_df.t = "none" \/ callArgs.theme_df.rows = <<>>)
              => callOut.value = <<>>
        /\ callArgs.theme_df.t = "frame" =>
              LET f == callArgs.theme_df.rows
              IN  /\ \A i \in DOMAIN f : \E r \in PriorityRows :
                        r.bank_name = f[i].bank_name /\ r.theme_primary = f[i].theme_primary
                  /\ \A r \in PriorityRows :
                        (r.bt_n = 0 \/ CountOfBank(f, r.bank_name) = 0) =>
                            /\ IsNaN(r.volume_share)
                            /\ IsNaN(r.pos_share)
                            /\ IsNaN(r.neg_share)
                            /\ IsNaN(r.driver_score)
                            /\ IsNaN(r.pain_score)

\* C26, each division by its own denominator: no row for an empty or absent
\* input, otherwise one row per (bank, theme) of the input; volume_share is
\* missing exactly when the bank total is zero, pos_share and neg_share
\* exactly when the theme total is zero, and both scores when either is.
C26_ZeroDenominatorsEach ==
    PriorityCalled =>
        /\ (callArgs.theme_df.t = "none" \/ callArgs.theme_df.rows = <<>>)
              => callOut.value = <<>>
        /\ callArgs.theme_df.t = "frame" =>
              LET f == callArgs.theme_df.rows
              IN  /\ \A i \in DOMAIN f : \E r \in PriorityRows :
                        r.bank_name = f[i].bank_name /\ r.theme_primary = f[i].theme_primary
                  /\ \A r \in PriorityRows :
                        /\ r.bt_n = CountOfGroup(f, r.bank_name, r.theme_primary, AnyLabel)
                        /\ IsNaN(r.volume_share) <=> CountOfBank(f, r.bank_name) = 0
                        /\ IsNaN(r.pos_share) <=> r.bt_n = 0
                        /\ IsNaN(r.neg_share) <=> r.bt_n = 0
                        /\ IsNaN(r.avg_rating) <=> r.bt_n = 0
                        /\ IsNaN(r.driver_score) <=> r.bt_n = 0
                        /\ IsNaN(r.pain_score) <=> r.bt_n = 0

\* a theme whose rows all have count zero in a bank that has reviews: its
\* shares of sentiment and its scores are missing, its volume share is 0
C26_Witness ==
    /\ PriorityCalled
    /\ callArgs.theme_df.t = "frame"
    /\ \E r \in PriorityRows :
          /\ r.bt_n = 0
          /\ CountOfBank(callArgs.theme_df.rows, r.bank_name) > 0
          /\ IsNaN(r.pos_share) /\ IsNaN(r.neg_share)
          /\ IsNaN(r.driver_score) /\ IsNaN(r.pain_score)
          /\ FEq(r.volume_share, Frac(0, 1))

\* C27: on a frame of the query layer the rollup's pos_share is the count
\* labelled positive over the group's count, neg_share the count labelled
\* negative over it, volume_share the group's count over the bank's; and the
\* result is the same whatever the letter case of the labels.
C27_RollupShares ==
    (PriorityCalled /\ callArgs.theme_df.t = "frame"
        /\ FromQueryLayer(callArgs.theme_df.rows)) =>
        LET f == callArgs.theme_df.rows
        IN  /\ \A r \in PriorityRows :
                LET n == CountOfGroup(f, r.bank_name, r.theme_primary, AnyLabel)
                IN  /\ FEq(r.pos_share,
                           Frac(CountOfGroup(f, r.bank_name, r.theme_primary, {<<"positive">>}), n))
                    /\ FEq(r.neg_share,
                           Frac(CountOfGroup(f, r.bank_name, r.theme_primary, {<<"negative">>}), n))
                    /\ FEq(r.volume_share, Frac(n, CountOfBank(f, r.bank_name)))
            /\ callOut.value = compute_priority_table(FrameVal(UpperLabels(f)))

\* the part of C27 that holds: the volume share
C27_VolumeShare ==
    (PriorityCalled /\ callArgs.theme_df.t = "frame"
        /\ FromQueryLayer(callArgs.theme_df.rows)) =>
        \A r \in PriorityRows :
            FEq(r.volume_share,
                Frac(CountOfGroup(callArgs.theme_df.rows, r.bank_name, r.theme_primary, AnyLabel),
                     CountOfBank(callArgs.theme_df.rows, r.bank_name)))


(***************************************************************************)
(* insights/task4.py, top_drivers_and_pain_points.                         *)
(***************************************************************************)
MaxK == 2
MaxScore == 1

\* sort_values([bank_col, score], ascending=[True, False]) is stable: a row
\* goes behind the rows of its bank that score at least as much
RECURSIVE InsertByBankScore(_, _, _)
InsertByBankScore(r, sorted, col) ==
    IF sorted = <<>> THEN <<r>>
    ELSE LET h == Head(sorted)
         IN  IF \/ StrLess(r.bank_name.s, h.bank_name.s)
                \/ r.bank_name = h.bank_name /\ FLess(h[col], r[col])
             THEN <<r>> \o sorted
             ELSE <<h>> \o InsertByBankScore(r, Tail(sorted), col)

RECURSIVE SortByBankScore(_, _)
SortByBankScore(rows, col) ==
    IF rows = <<>> THEN <<>>
    ELSE InsertByBankScore(rows[Len(rows)], SortByBankScore(SubSeq(rows, 1, Len(rows) - 1), col),
                           col)

\* .head(k) of the whole frame
HeadPerBank_Global(sorted, k) == SubSeq(sorted, 1, Min2(k, Len(sorted)))

\* .groupby(bank_col).head(k): the first k rows of each bank, order kept
HeadPerBank(sorted, k) ==
    LET kept == {i \in DOMAIN sorted :
                    Cardinality({j \in 1..(i - 1) : sorted[j].bank_name = sorted[i].bank_name}) < k}
        RECURSIVE Pick(_)
        Pick(i) == IF i > Len(sorted) THEN <<>>
                   ELSE (IF i \in kept THEN <<sorted[i]>> ELSE <<>>) \o Pick(i + 1)
    IN  Pick(1)

\* .assign(kind=...)[keep]
KeepColumns(rows, kind) ==
    [i \in DOMAIN rows |->
        [bank_name |-> rows[i].bank_name, theme_primary |-> rows[i].theme_primary,
         n |-> rows[i].n, share_within_bank |-> rows[i].share_within_bank,
         avg_rating |-> rows[i].avg_rating, pct_positive |-> rows[i].pct_positive,
         pct_negative |-> rows[i].pct_negative, kind |-> kind]]

top_drivers_and_pain_points(theme_summary, k) ==
    [drivers |-> KeepColumns(HeadPerBank(SortByBankScore(theme_summary, "driver_score"), k),
                             "DRIVER"),
     pains |-> KeepColumns(HeadPerBank(SortByBankScore(theme_summary, "pain_score"), k),
                           "PAIN_POINT")]

\* summaries of one bank with up to three themes and one with up to one;
\* the scores range over 0..MaxScore, the other columns are carried along
SummaryKeys == <<<<"a", "O">>, <<"a", "U">>, <<"a", "W">>, <<"b", "O">>>>

SummaryFrames ==
    LET Cell == {[present |-> FALSE, d |-> 0, p |-> 0]}
                \cup [present : {TRUE}, d : 0..MaxScore, p : 0..MaxScore]
        RowOf(i, c) ==
            [bank_name |-> StrVal(<<SummaryKeys[i][1]>>),
             theme_primary |-> StrVal(<<SummaryKeys[i][2]>>),
             n |-> 1, avg_rating |-> Frac(3, 1), pct_positive |-> Frac(1, 2),
             pct_negative |-> Frac(1, 2), bank_n |-> 3, share_within_bank |-> Frac(1, 3),
             driver_score |-> Frac(c.d, 1), pain_score |-> Frac(c.p, 1)]
        RECURSIVE Build(_, _)
        Build(f, i) ==
            IF i > Len(SummaryKeys) THEN <<>>
            ELSE (IF f[i].present THEN <<RowOf(i, f[i])>> ELSE <<>>) \o Build(f, i + 1)
    IN  {Build(f, 1) : f \in [DOMAIN SummaryKeys -> Cell]}

TopInit ==
    /\ StoreInit
    /\ IdIdle
    /\ OtherIdle
    /\ callFn = "top_drivers_and_pain_points"
    /\ callArgs \in [theme_summary : SummaryFrames, k : 0..MaxK]
    /\ callOut = NotCalled

CallTopDriversAndPainPoints ==
    /\ callFn = "top_drivers_and_pain_points"
    /\ callOut = NotCalled
    /\ callOut' = Returned(top_drivers_and_pain_points(callArgs.theme_summary, callArgs.k))
    /\ UNCHANGED <<callFn, callArgs>>

TopNext == CallTopDriversAndPainPoints /\ UNCHANGED <<storeVars, idVars, histVars, cacheVars>>

SpecTop == TopInit /\ [][TopNext]_vars

\* what the claim about the selection reads off the call
TopCalled == callFn = "top_drivers_and_pain_points" /\ callOut.returned
RowsOfBank(rows, bank) == SelectSeq(rows, LAMBDA r : r.bank_name = bank)
ThemesIn(rows) == {<<rows[i].bank_name, rows[i].theme_primary>> : i \in DOMAIN rows}
WithoutPain(rows) == [i \in DOMAIN rows |-> [rows[i] EXCEPT !.pain_score = Frac(0, 1)]]
WithoutDriver(rows) == [i \in DOMAIN rows |-> [rows[i] EXCEPT !.driver_score = Frac(0, 1)]]

\* C25: per bank the selection returns min(K, rows of the bank) drivers and
\* as many pain points; a returned theme scores at least as much as every
\* theme of its bank that is not returned; the drivers do not depend on the
\* pain scores nor the pain points on the driver scores; and a bank's
\* selection is the selection made from that bank's rows alone.
C25_TopSelection ==
    TopCalled =>
        LET rows == callArgs.theme_summary
            k == callArgs.k
            out == callOut.value
        IN  /\ \A b \in BankNames :
                LET mine == RowsOfBank(rows, b)
                    alone == top_drivers_and_pain_points(mine, k)
                IN  /\ Len(RowsOfBank(out.drivers, b)) = Min2(k, Len(mine))
                    /\ Len(RowsOfBank(out.pains, b)) = Min2(k, Len(mine))
                    /\ RowsOfBank(out.drivers, b) = alone.drivers
                    /\ RowsOfBank(out.pains, b) = alone.pains
                    /\ \A i, j \in DOMAIN mine :
                          /\ (/\ <<b, mine[i].theme_primary>> \in ThemesIn(out.drivers)
                              /\ <<b, mine[j].theme_primary>> \notin ThemesIn(out.drivers))
                                 => ~FLess(mine[i].driver_score, mine[j].driver_score)
                          /\ (/\ <<b, mine[i].theme_primary>> \in ThemesIn(out.pains)
                              /\ <<b, mine[j].theme_primary>> \notin ThemesIn(out.pains))
                                 => ~FLess(mine[i].pain_score, mine[j].pain_score)
            /\ ThemesIn(out.drivers) \subseteq ThemesIn(rows)
            /\ ThemesIn(out.pains) \subseteq ThemesIn(rows)
            /\ Cardinality(ThemesIn(out.drivers)) = Len(out.drivers)
            /\ Cardinality(ThemesIn(out.pains)) = Len(out.pains)
            /\ out.drivers = top_drivers_and_pain_points(WithoutPain(rows), k).drivers
            /\ out.pains = top_drivers_and_pain_points(WithoutDriver(rows), k).pains

\* a bank with more rows than K >= 1, a second bank, one theme in both lists
\* and one in the drivers only
C25_Witness ==
    /\ TopCalled
    /\ callArgs.k = 2
    /\ Len(RowsOfBank(callArgs.theme_summary, StrVal(<<"a">>))) = 3
    /\ Len(RowsOfBank(callArgs.theme_summary, StrVal(<<"b">>))) = 1
    /\ Len(callOut.value.drivers) = 3
    /\ ThemesIn(callOut.value.drivers) \cap ThemesIn(callOut.value.pains) # {}
    /\ ThemesIn(callOut.value.drivers) \ ThemesIn(callOut.value.pains) # {}


(***************************************************************************)
(* db/load.py, _parse_themes on its own: every cell over a small alphabet, *)
(* a missing cell, and the themes strings assign_themes writes.            *)
(***************************************************************************)
MaxCellLen == 5

CellChars == {"a", " ", "'", ",", "|", "[", "]"}

\* the list assign_themes joins into its themes string
PickedThemes(text, cfg) ==
    LET ranked == SortedByScoreDesc(score_themes(text, cfg))
        primary == <<ranked[1].theme>>
    IN  IF ranked[1].score < cfg.threshold THEN <<<<"OTHER">>>>
        ELSE IF ~cfg.allow_multilabel THEN <<primary>>
        ELSE PickThemes(<<primary>>, Tail(ranked), cfg)

\* ThemeConfig with its default weights, the default threshold or a lower one
DefaultWeightConfigs ==
    {cfg \in ThemeConfigs :
        cfg.unigram_weight = 1 /\ cfg.bigram_weight = 2 /\ cfg.threshold \in {1, 2}}

\* a cell and, for a cell written by assign_themes, the list it was joined
\* from (<<>> otherwise)
ThemeCells ==
    {[cell |-> c, picked |-> <<>>] :
        c \in {StrVal(x) : x \in UNION {[1..n -> CellChars] : n \in 0..MaxCellLen}}
              \cup {NoneVal, NaN}}
    \cup {[cell |-> StrVal(assign_themes(t, cfg)[2]), picked |-> PickedThemes(t, cfg)] :
             t \in ThemeTexts, cfg \in DefaultWeightConfigs}

ParseInit ==
    /\ StoreInit
    /\ IdIdle
    /\ OtherIdle
    /\ callFn = "_parse_themes"
    /\ callArgs \in ThemeCells
    /\ callOut = NotCalled

CallParseThemes ==
    /\ callFn = "_parse_themes"
    /\ callOut = NotCalled
    /\ callOut' = Returned(_parse_themes(callArgs.cell))
    /\ UNCHANGED <<callFn, callArgs>>

ParseNext == CallParseThemes /\ UNCHANGED <<storeVars, idVars, histVars, cacheVars>>

SpecParse == ParseInit /\ [][ParseNext]_vars

\* what the claim about the parser reads off the call
ParseCalled == callFn = "_parse_themes" /\ callOut.returned
Quotes == {"'", "\""}
\* the pieces of s between the delimiter d, trimmed of whitespace (and, in a
\* bracket list, of the quotes around them), the empty ones left out
PiecesOf(s, d, unquote) ==
    LET parts == SplitOn(s, d)
        Trim(x) == IF unquote
                   THEN StripChars(StripChars(Strip(x), {"'"}), {"\""})
                   ELSE Strip(x)
    IN  SelectSeq([i \in DOMAIN parts |-> Trim(parts[i])], LAMBDA x : x # <<>>)
IsBracketList(s) == s # <<>> /\ Head(s) = "[" /\ s[Len(s)] = "]"
CleanName(x) ==
    /\ x # <<>>
    /\ Head(x) \notin Whitespace \cup Quotes
    /\ x[Len(x)] \notin Whitespace \cup Quotes

\* C28, the precedence of the formats and the empty cases
C28_Precedence ==
    ParseCalled =>
        LET cell == callArgs.cell
            out == callOut.value
            s == Strip(cell.s)
        IN  IF cell.t # "str" \/ s = <<>> THEN out = <<>>
            ELSE IF IsBracketList(s)
                 THEN LET inner == Strip(StripChars(s, {"[", "]"}))
                      IN  IF inner = <<>> THEN out = <<>>
                          ELSE out = PiecesOf(inner, ",", TRUE)
            ELSE IF "|" \in Range(s) THEN out = PiecesOf(s, "|", FALSE)
            ELSE IF "," \in Range(s) THEN out = PiecesOf(s, ",", FALSE)
            ELSE out = <<s>>

\* C28, the round trip: the themes string assign_themes writes parses back to
\* the list it was joined from
C28_RoundTrip ==
    (ParseCalled /\ callArgs.picked # <<>>) => callOut.value = callArgs.picked

\* C28, the names returned are clean
C28_CleanNames ==
    ParseCalled => \A i \in DOMAIN callOut.value : CleanName(callOut.value[i])

\* C28: _parse_themes reads a cell by a fixed precedence (bracket list, else
\* pipe, else comma, else the whole string), returns the empty list for a
\* missing, blank or empty-bracket cell, returns only clean names (no empty
\* item, no item with leading or trailing whitespace or quote characters),
\* and returns exactly the picked list for a themes string of assign_themes.
C28_ParseThemes == C28_Precedence /\ C28_CleanNames /\ C28_RoundTrip


(***************************************************************************)
(* Specification SpecOrder: one caller running loads and updates in any    *)
(* order, with the calls that committed written down in `log`              *)
(***************************************************************************)
\* the call of connection p as it commits, with the identities of the
\* reviews its transaction inserts
Committed(p) ==
    [kind |-> done[p].kind, rows |-> done[p].rows,
     load_theme_links |-> done[p].load_theme_links,
     inserted |-> {r.review_hash : r \in Visible(db, tx[p].w).reviews}
                      \ {r.review_hash : r \in db.reviews}]

OrderNext ==
    /\ UNCHANGED <<idVars, pureVars, cacheVars>>
    /\ \/ (\E rows \in Batches(Task1Rows) : BeginLoad(1, rows)) /\ UNCHANGED log
       \/ LoadInsertBanks(1) /\ UNCHANGED log
       \/ LoadInsertReviews(1) /\ UNCHANGED log
       \/ (\E rows \in Batches(Task2Rows), ltl \in BOOLEAN : BeginUpdate(1, rows, ltl))
             /\ UNCHANGED log
       \/ UpdateSetEnrichment(1) /\ UNCHANGED log
       \/ UpdateInsertThemes(1) /\ UNCHANGED log
       \/ UpdateInsertLinks(1) /\ UNCHANGED log
       \/ Commit(1) /\ log' = Append(log, Committed(1))
       \/ Fail(1) /\ UNCHANGED log
       \/ Return(1) /\ UNCHANGED log

SpecOrder == Init /\ [][OrderNext]_vars

\* what the claim about the order of the phases reads off the store and the log
HasEnrichment(r) ==
    r.sentiment_score # NoneVal \/ r.sentiment_label # NoneVal \/ r.theme_primary # NoneVal
HasThemeLink(r) == \E l \in BagToSet(db.review_themes) : l[1] = r.review_id
\* the rows of an update that carry the identity h, in file order
Carrying(entry, h) ==
    SelectSeq(PrepareDf(entry.rows), LAMBDA u : RowHash(u) = h)
\* the position in the log of the load that inserted h
InsertedAt(h) == CHOOSE i \in DOMAIN log : h \in log[i].inserted
\* the updates committed after position i that carry h
UpdatesAfter(i, h) ==
    {j \in DOMAIN log : j > i /\ log[j].kind = "update" /\ Carrying(log[j], h) # <<>>}

\* C29: every stored review was inserted by one committed base load; it has
\* a non-null enrichment field or a theme association only if an update
\* carrying its identity committed after that load; an update that committed
\* before the load leaves it without enrichment; and after an update that
\* follows the load it holds the enrichment of the last such update.
C29_PhaseOrder ==
    \A r \in db.reviews :
        /\ \E i \in DOMAIN log : r.review_hash \in log[i].inserted
        /\ \A i, j \in DOMAIN log :
              (r.review_hash \in log[i].inserted /\ r.review_hash \in log[j].inserted) => i = j
        /\ log[InsertedAt(r.review_hash)].kind = "load"
        /\ LET after == UpdatesAfter(InsertedAt(r.review_hash), r.review_hash)
           IN  /\ (HasEnrichment(r) \/ HasThemeLink(r)) => after # {}
               /\ after # {} =>
                     LET latest == CHOOSE j \in after : \A k \in after : k <= j
                         us == Carrying(log[latest], r.review_hash)
                         u == us[Len(us)]
                     IN  /\ r.sentiment_score = u.sentiment_score
                         /\ r.sentiment_label = u.sentiment_label
                         /\ r.theme_primary = u.theme_primary
                         /\ HasEnrichment(r)

\* an update carrying a review's identity committed, then the load that
\* inserted the review, then the same update again: the review is enriched
C29_Witness ==
    /\ Len(log) = 3
    /\ log[1].kind = "update" /\ log[2].kind = "load" /\ log[3] = [log[1] EXCEPT !.inserted = {}]
    /\ log[1].inserted = {}
    /\ \E r \in db.reviews :
          /\ r.review_hash \in log[2].inserted
          /\ Carrying(log[1], r.review_hash) # <<>>
          /\ HasEnrichment(r) /\ HasThemeLink(r)

\* the update alone, before the load: the review is stored without enrichment
C29_WitnessBefore ==
    /\ Len(log) = 2
    /\ log[1].kind = "update" /\ log[2].kind = "load"
    /\ \E r \in db.reviews :
          /\ Carrying(log[1], r.review_hash) # <<>>
          /\ ~HasEnrichment(r) /\ ~HasThemeLink(r)


(***************************************************************************)
(* dashboard_gradio/data.py, TTLCache: set, get, and time passing          *)
(***************************************************************************)
MaxTtl == 2
MaxClock == 4

CacheKeys == {<<"filters">>, <<"other">>}
CacheValues == {StrVal(<<"a">>), StrVal(<<"b">>)}

\* d[key] = item
DictSet(d, key, item) ==
    [k \in DOMAIN d \cup {key} |-> IF k = key THEN item ELSE d[k]]

\* d.pop(key, None)
DictPop(d, key) == [k \in DOMAIN d \ {key} |-> d[k]]

\* time.time() - ts >= self.ttl_seconds
Expired_Inclusive(ts, now, ttl) == now - ts >= ttl

\* time.time() - ts > self.ttl_seconds
Expired(ts, now, ttl) == now - ts > ttl

\* TTLCache(ttl_seconds=...)
CacheInit ==
    /\ StoreInit
    /\ IdIdle
    /\ OtherIdle
    /\ callFn = "TTLCache"
    /\ callArgs \in [ttl_seconds : 0..MaxTtl]
    /\ callOut = NotCalled

\* TTLCache.set
CacheSet(key, value) ==
    /\ _store' = DictSet(_store, key, [ts |-> clock, value |-> value])
    /\ lastSet' = DictSet(lastSet, key, [ts |-> clock, value |-> value])
    /\ lastOp' = [op |-> "set", key |-> key, result |-> NoneVal, at |-> clock,
                  before |-> _store]
    /\ UNCHANGED clock

\* TTLCache.get
CacheGet(key) ==
    /\ IF key \notin DOMAIN _store
       THEN /\ lastOp' = [op |-> "get", key |-> key, result |-> NoneVal, at |-> clock,
                          before |-> _store]
            /\ UNCHANGED _store
       ELSE IF Expired(_store[key].ts, clock, callArgs.ttl_seconds)
       THEN /\ _store' = DictPop(_store, key)
            /\ lastOp' = [op |-> "get", key |-> key, result |-> NoneVal, at |-> clock,
                          before |-> _store]
       ELSE /\ lastOp' = [op |-> "get", key |-> key, result |-> _store[key].value,
                          at |-> clock, before |-> _store]
            /\ UNCHANGED _store
    /\ UNCHANGED <<clock, lastSet>>

\* time.time() moves on between two calls
Tick ==
    /\ clock < MaxClock
    /\ clock' = clock + 1
    /\ UNCHANGED <<_store, lastSet, lastOp>>

CacheNext ==
    /\ UNCHANGED <<storeVars, idVars, pureVars, histVars>>
    /\ \/ \E key \in CacheKeys, value \in CacheValues : CacheSet(key, value)
       \/ \E key \in CacheKeys : CacheGet(key)
       \/ Tick

SpecCache == CacheInit /\ [][CacheNext]_vars

\* C30: a get returns the value of the most recent set of its key exactly
\* when at most ttl_seconds have passed since that set, and None otherwise,
\* the expired entry then being gone from the store; a set makes its value
\* and its time the key's entry, so that expiry counts from the latest set;
\* neither call changes the entry of another key.
C30_CacheExpiry ==
    /\ lastOp.op = "get" =>
          LET k == lastOp.key
              fresh == k \in DOMAIN lastSet
                          /\ lastOp.at - lastSet[k].ts <= callArgs.ttl_seconds
          IN  /\ fresh => (lastOp.result = lastSet[k].value /\ _store[k] = lastSet[k])
              /\ ~fresh => (lastOp.result = NoneVal /\ k \notin DOMAIN _store)
              /\ \A o \in CacheKeys \ {k} :
                    /\ (o \in DOMAIN _store) <=> (o \in DOMAIN lastOp.before)
                    /\ o \in DOMAIN _store => _store[o] = lastOp.before[o]
    /\ lastOp.op = "set" =>
          LET k == lastOp.key
          IN  /\ k \in DOMAIN _store
              /\ _store[k] = lastSet[k]
              /\ _store[k].ts = lastOp.at
              /\ \A o \in CacheKeys \ {k} :
                    /\ (o \in DOMAIN _store) <=> (o \in DOMAIN lastOp.before)
                    /\ o \in DOMAIN _store => _store[o] = lastOp.before[o]

\* a get exactly ttl_seconds after the set, returning the value, with another
\* key cached
C30_Witness ==
    /\ lastOp.op = "get"
    /\ callArgs.ttl_seconds = 2
    /\ lastOp.key \in DOMAIN lastSet
    /\ lastOp.at - lastSet[lastOp.key].ts = 2
    /\ lastOp.result = lastSet[lastOp.key].value
    /\ \E o \in CacheKeys \ {lastOp.key} : o \in DOMAIN _store

\* a get after expiry that removes the entry
C30_WitnessExpired ==
    /\ lastOp.op = "get"
    /\ lastOp.key \in DOMAIN lastOp.before
    /\ lastOp.key \notin DOMAIN _store
    /\ lastOp.result = NoneVal
    /\ lastOp.at - lastSet[lastOp.key].ts = callArgs.ttl_seconds + 1

\* a set of a key whose earlier entry had expired, then a get that returns
\* the new value
C30_WitnessRestart ==
    /\ lastOp.op = "get"
    /\ lastOp.key \in DOMAIN lastSet
    /\ lastOp.result = lastSet[lastOp.key].value
    /\ lastSet[lastOp.key].ts > callArgs.ttl_seconds

====
